---- MODULE Spec2Model ----
(***************************************************************************)
(* A model of the edgygraph executor: edge indexing (graph/branches.py,    *)
(* graph/types.py), the diff engine (diff.py) and the branch runner and    *)
(* orchestrator (graph/graphs.py), run on an asyncio-style cooperative     *)
(* scheduler.                                                              *)
(***************************************************************************)
EXTENDS Integers, Sequences, FiniteSets, TLC

(***************************************************************************)
(* Python values.  Every value is a record [t, v]: t is the runtime type,  *)
(* v the payload.                                                          *)
(***************************************************************************)
VNode(n) == [t |-> "node", v |-> n]

VSTART == [t |-> "START", v |-> "START"]

VEND == [t |-> "END", v |-> "END"]

VNone == [t |-> "None", v |-> "None"]

VExc(c) == [t |-> "exc", v |-> c]

VList(s) == [t |-> "list", v |-> s]

VTuple(s) == [t |-> "tuple", v |-> s]

VConfig(instant) == [t |-> "Config", v |-> instant]

VErrorConfig(propagate) == [t |-> "ErrorConfig", v |-> propagate]

VCallable(f) == [t |-> "callable", v |-> f]

\* isinstance(x, Sequence)
IsSequence(x) == x.t \in {"list", "tuple"}

\* isinstance(x, type)
IsType(x) == x.t \in {"START", "END", "exc"}

\* callable(x): functions, classes, and nodes (which define __call__)
IsCallable(x) == x.t \in {"callable", "START", "END", "exc", "node"}

\* issubclass(c, d) over the exception classes used by the scenarios
IsSubclass(c, d) == c = d \/ d = "Exception"

(***************************************************************************)
(* graph/types.py: the Types predicates.                                   *)
(***************************************************************************)
is_single_next(x) == x.t = "None" \/ x.t = "END" \/ x.t = "node"

is_single_next_sequence(x) ==
    IsSequence(x) /\ \A i \in DOMAIN x.v : is_single_next(x.v[i])

is_resolved_next(x) == is_single_next(x) \/ is_single_next_sequence(x)

is_next(x) ==
    \/ is_single_next(x)
    \/ (IsSequence(x) /\ \A i \in DOMAIN x.v : is_single_next(x.v[i]))
    \/ IsCallable(x)

is_single_source(x) == x.t = "START" \/ x.t = "node"

is_single_source_sequence(x) ==
    IsSequence(x) /\ \A i \in DOMAIN x.v : is_single_source(x.v[i])

is_source(x) ==
    \/ is_single_source(x)
    \/ (IsSequence(x) /\ \A i \in DOMAIN x.v : is_single_source(x.v[i]))

is_single_error_source(x) ==
    \/ x.t = "exc"
    \/ (x.t = "tuple" /\ Len(x.v) = 2 /\ x.v[1].t = "node" /\ x.v[2].t = "exc")

is_error_source(x) ==
    \/ is_single_error_source(x)
    \/ (IsSequence(x) /\ \A i \in DOMAIN x.v : is_single_error_source(x.v[i]))

is_single_error_source_sequence(x) ==
    /\ IsSequence(x)
    /\ \A i \in DOMAIN x.v : is_single_error_source(x.v[i])
    /\ Len(x.v) > 1

is_only_node_tuple(s) == \A i \in DOMAIN s : s[i].t = "node"

is_node_tupel(edge) ==
    /\ Len(edge) >= 2
    /\ is_source(edge[1])
    /\ is_only_node_tuple(SubSeq(edge, 2, Len(edge) - 1))
    /\ is_next(edge[Len(edge)])

(***************************************************************************)
(* graph/branches.py: Branch.index_edges.  An index is the sequence of its *)
(* entries in insertion order, each carrying the key it is filed under;    *)
(* index[key] is the subsequence with that key.  A result is               *)
(* [err, node, error]: err is "" or the exception raised.                  *)
(***************************************************************************)
MkEntry(key, next, config, index) ==
    [key |-> key, next |-> next, config |-> config, index |-> index]

\* an expansion that files the first pair of the tuple only
FirstPairOnly(edge, i, k, acc) ==
    [err |-> "", node |-> <<MkEntry(edge[1], edge[2], VConfig(FALSE), i)>>,
     error |-> <<>>]

RECURSIVE NodeTupelEntries(_, _, _, _)
\* the zip(edge, edge[1:]) loop of index_edges, from pair k on
NodeTupelEntries(edge, i, k, acc) ==
    IF k >= Len(edge) THEN [err |-> "", node |-> acc, error |-> <<>>]
    ELSE LET source == edge[k]
             next == edge[k + 1]
         IN  IF IsType(source) /\ source # VSTART
                 THEN [err |-> "AssertionError", node |-> acc, error |-> <<>>]
             ELSE IF IsType(next) /\ next # VEND
                 THEN [err |-> "AssertionError", node |-> acc, error |-> <<>>]
             ELSE IF ~(source.t = "node" \/ IsType(source))
                 THEN [err |-> "AssertionError", node |-> acc, error |-> <<>>]
             ELSE NodeTupelEntries(edge, i, k + 1,
                      Append(acc, MkEntry(source, next, VConfig(FALSE), i)))

\* the default config of a two-element edge (branches.py line 69)
DefaultConfig(source) ==
    IF source = VSTART \/ source.t = "node" \/ IsSequence(source)
    THEN VConfig(FALSE)
    ELSE VErrorConfig(FALSE)

\* the entries one non-node-tuple edge (source, next, config) contributes
PairEntries(source, next, config, i) ==
    IF is_error_source(source) THEN
        IF config.t # "ErrorConfig"
            THEN [err |-> "AssertionError", node |-> <<>>, error |-> <<>>]
        ELSE IF is_single_error_source(source)
            THEN [err |-> "", node |-> <<>>,
                  error |-> <<MkEntry(source, next, config, i)>>]
        ELSE IF is_single_error_source_sequence(source)
            THEN [err |-> "", node |-> <<>>,
                  error |-> [k \in DOMAIN source.v |->
                               MkEntry(source.v[k], next, config, i)]]
        ELSE [err |-> "ValueError", node |-> <<>>, error |-> <<>>]
    ELSE IF is_source(source) THEN
        IF config.t # "Config"
            THEN [err |-> "AssertionError", node |-> <<>>, error |-> <<>>]
        ELSE IF is_single_source(source)
            THEN [err |-> "", error |-> <<>>,
                  node |-> <<MkEntry(source, next, config, i)>>]
        ELSE IF is_single_source_sequence(source)
            THEN [err |-> "", error |-> <<>>,
                  node |-> [k \in DOMAIN source.v |->
                              MkEntry(source.v[k], next, config, i)]]
        ELSE [err |-> "ValueError", node |-> <<>>, error |-> <<>>]
    ELSE [err |-> "ValueError", node |-> <<>>, error |-> <<>>]

\* one iteration of the enumerate(self.edges) loop; i is the 0-based index
EdgeEntries(edge, i) ==
    IF is_node_tupel(edge) THEN NodeTupelEntries(edge, i, 1, <<>>)
    ELSE IF Len(edge) = 3 THEN PairEntries(edge[1], edge[2], edge[3], i)
    ELSE IF Len(edge) = 2
        THEN PairEntries(edge[1], edge[2], DefaultConfig(edge[1]), i)
    ELSE [err |-> "ValueError", node |-> <<>>, error |-> <<>>]

RECURSIVE IndexFrom(_, _, _)
IndexFrom(edges, k, acc) ==
    IF k > Len(edges) THEN acc
    ELSE LET add(r) ==
                 IF r.err # ""
                     THEN [err |-> r.err, node |-> acc.node, error |-> acc.error]
                 ELSE IndexFrom(edges, k + 1,
                          [err |-> "", node |-> acc.node \o r.node,
                           error |-> acc.error \o r.error])
         IN  add(EdgeEntries(edges[k], k - 1))

index_edges(edges) ==
    IndexFrom(edges, 1, [err |-> "", node |-> <<>>, error |-> <<>>])

\* index[key] of a defaultdict(list) index
Lookup(index, key) == SelectSeq(index, LAMBDA e : e.key = key)

RECURSIVE KeysFrom(_, _, _)
KeysFrom(index, k, acc) ==
    IF k > Len(index) THEN acc
    ELSE IF \E j \in DOMAIN acc : acc[j] = index[k].key
        THEN KeysFrom(index, k + 1, acc)
    ELSE KeysFrom(index, k + 1, Append(acc, index[k].key))

\* index.keys(): the keys in first-insertion order
Keys(index) == KeysFrom(index, 1, <<>>)

(***************************************************************************)
(* graph/graphs.py: Graph.__init__ and Graph.index_branches.  A branch     *)
(* container is [edges, join]; the registry is the sequence of Branch      *)
(* objects in creation order, branch_registry[s] being those with start s. *)
(***************************************************************************)
MkBranch(edges, start, join) ==
    LET branch(ix) ==
            [err |-> ix.err, edges |-> edges, start |-> start, join |-> join,
             edge_index |-> ix.node, error_edge_index |-> ix.error]
    IN  branch(index_edges(edges))

\* the branches one container contributes, or the error it raises
ContainerBranches(c) ==
    LET source == c.edges[1][1]
        starts == IF is_single_source(source) THEN <<source>>
                  ELSE IF is_single_source_sequence(source) THEN source.v
                  ELSE <<>>
    IN  IF starts = <<>>
            THEN <<[err |-> "ValueError", edges |-> c.edges, start |-> VNone,
                    join |-> c.join, edge_index |-> <<>>,
                    error_edge_index |-> <<>>]>>
        ELSE [k \in DOMAIN starts |-> MkBranch(c.edges, starts[k], c.join)]

RECURSIVE BranchesFrom(_, _, _)
BranchesFrom(containers, k, acc) ==
    IF k > Len(containers) THEN [err |-> "", branches |-> acc]
    ELSE LET add(bs) ==
                 IF \E j \in DOMAIN bs : bs[j].err # ""
                     THEN [err |-> bs[CHOOSE j \in DOMAIN bs :
                                         /\ bs[j].err # ""
                                         /\ \A m \in 1..(j - 1) : bs[m].err = ""].err,
                           branches |-> acc]
                 ELSE BranchesFrom(containers, k + 1, acc \o bs)
         IN  add(ContainerBranches(containers[k]))

\* Graph(edges=containers): the constructed registry or the error raised
index_branches(containers) == BranchesFrom(containers, 1, <<>>)

(***************************************************************************)
(* diff.py: the diff engine over nested mappings.  A mapping is the value  *)
(* [t |-> "dict", v |-> f] with f a function from keys to values; scalars  *)
(* are "int" and "str" values.  A changeset is a function from paths       *)
(* (sequences of keys) to changes.                                         *)
(***************************************************************************)
VInt(n) == [t |-> "int", v |-> n]

VStr(s) == [t |-> "str", v |-> s]

VDict(f) == [t |-> "dict", v |-> f]

Change(type, old, new) == [type |-> type, old |-> old, new |-> new]

\* a diff that compares the values under each key without descending
DiffTopLevelOnly(old, new, path) ==
    IF old.t = "dict" /\ new.t = "dict" THEN
        LET all_keys == DOMAIN old.v \cup DOMAIN new.v
        IN  [p \in {Append(path, key) : key \in
                       {k \in all_keys :
                           \/ k \notin DOMAIN old.v
                           \/ k \notin DOMAIN new.v
                           \/ old.v[k] # new.v[k]}} |->
                LET key == p[Len(p)]
                IN  IF key \notin DOMAIN new.v
                        THEN Change("removed", old.v[key], VNone)
                    ELSE IF key \notin DOMAIN old.v
                        THEN Change("added", VNone, new.v[key])
                    ELSE Change("updated", old.v[key], new.v[key])]
    ELSE IF old # new
        THEN [p \in {path} |-> Change("updated", old, new)]
    ELSE [p \in {} |-> Change("updated", old, new)]

RECURSIVE recursive_diff(_, _, _)
recursive_diff(old, new, path) ==
    IF old.t = "dict" /\ new.t = "dict" THEN
        LET all_keys == DOMAIN old.v \cup DOMAIN new.v
            sub(key) ==
                LET current_path == Append(path, key)
                IN  IF key \in DOMAIN old.v /\ key \notin DOMAIN new.v
                        THEN [p \in {current_path} |->
                                 Change("removed", old.v[key], VNone)]
                    ELSE IF key \in DOMAIN new.v /\ key \notin DOMAIN old.v
                        THEN [p \in {current_path} |->
                                 Change("added", VNone, new.v[key])]
                    ELSE recursive_diff(old.v[key], new.v[key], current_path)
            dom == UNION {DOMAIN sub(key) : key \in all_keys}
        IN  [p \in dom |->
                sub(CHOOSE key \in all_keys : p \in DOMAIN sub(key))[p]]
    ELSE IF old # new
        THEN [p \in {path} |-> Change("updated", old, new)]
    ELSE [p \in {} |-> Change("updated", old, new)]

RECURSIVE ChangesBackwards(_, _, _)
\* the changes at key collected from the last changeset to the first
ChangesBackwards(changes, key, k) ==
    IF k > Len(changes) THEN <<>>
    ELSE IF key \in DOMAIN changes[k]
        THEN ChangesBackwards(changes, key, k + 1) \o <<changes[k][key]>>
    ELSE ChangesBackwards(changes, key, k + 1)

RECURSIVE ChangesAt(_, _, _)
\* [d[key] for d in changes if key in d], from position k on
ChangesAt(changes, key, k) ==
    IF k > Len(changes) THEN <<>>
    ELSE IF key \in DOMAIN changes[k]
        THEN <<changes[k][key]>> \o ChangesAt(changes, key, k + 1)
    ELSE ChangesAt(changes, key, k + 1)

\* a conflict finder that reports nothing
NoConflicts(changes) == [p \in {} |-> <<>>]

find_conflicts(changes) ==
    IF Len(changes) <= 1 THEN [p \in {} |-> <<>>]
    ELSE LET keys == UNION {DOMAIN changes[i] : i \in DOMAIN changes}
             count(key) ==
                 Cardinality({i \in DOMAIN changes : key \in DOMAIN changes[i]})
             duplicate_keys == {key \in keys : count(key) > 1}
         IN  [key \in duplicate_keys |-> ChangesAt(changes, key, 1)]

\* "part in cursor" for a str cursor: Python tests for a substring; among
\* the strings of the model no key is a proper substring of a value
StrContains(s, part) == part = s

RECURSIVE ApplyAt(_, _, _)
\* one iteration of the apply_changes loop below the cursor: the cursor's
\* new value, or the error raised.  A cursor that is no mapping raises
\* TypeError where it is indexed, assigned to or (an int, None) tested with
\* "in"; a str cursor passes the "in" test of the REMOVED case.
ApplyAt(cursor, path, change) ==
    IF Len(path) = 1 THEN
        LET last_key == path[1]
        IN  IF change.type = "removed" THEN
                IF cursor.t = "dict" THEN
                    IF last_key \in DOMAIN cursor.v
                        THEN [err |-> "",
                              val |-> VDict([k \in DOMAIN cursor.v \ {last_key} |->
                                                cursor.v[k]])]
                    ELSE [err |-> "KeyError", val |-> cursor]
                ELSE IF cursor.t = "str" /\ ~StrContains(cursor.v, last_key)
                    THEN [err |-> "KeyError", val |-> cursor]
                ELSE [err |-> "TypeError", val |-> cursor]
            ELSE IF cursor.t # "dict" THEN [err |-> "TypeError", val |-> cursor]
            ELSE [err |-> "",
                  val |-> VDict([k \in DOMAIN cursor.v \cup {last_key} |->
                                    IF k = last_key THEN change.new
                                    ELSE cursor.v[k]])]
    ELSE IF cursor.t # "dict" THEN [err |-> "TypeError", val |-> cursor]
    ELSE LET part == Head(path)
             below == IF part \in DOMAIN cursor.v THEN cursor.v[part]
                      ELSE VDict([k \in {} |-> VNone])
             with(r) ==
                 [err |-> r.err,
                  val |-> VDict([k \in DOMAIN cursor.v \cup {part} |->
                                    IF k = part THEN r.val ELSE cursor.v[k]])]
         IN  with(ApplyAt(below, Tail(path), change))

\* a loop body that skips REMOVED changes
ApplyNoRemoval(target, path, change) ==
    IF Len(path) = 0 THEN [err |-> "IndexError", val |-> target]
    ELSE IF change.type = "removed" THEN [err |-> "", val |-> target]
    ELSE ApplyAt(target, path, change)

\* a loop body that leaves the target alone when the key to remove is
\* missing
ApplyIgnoreMissing(target, path, change) ==
    IF Len(path) = 0 THEN [err |-> "IndexError", val |-> target]
    ELSE LET ignore(r) == IF r.err = "KeyError"
                              THEN [err |-> "", val |-> target]
                          ELSE r
         IN  ignore(ApplyAt(target, path, change))

\* the body of the apply_changes loop for one (path, change) item
ApplyOne(target, path, change) ==
    IF Len(path) = 0 THEN [err |-> "IndexError", val |-> target]
    ELSE ApplyAt(target, path, change)

RECURSIVE ApplyPaths(_, _, _)
ApplyPaths(target, changes, todo) ==
    IF todo = {} THEN [err |-> "", val |-> target]
    ELSE LET path == CHOOSE p \in todo : TRUE
             then(r) == IF r.err # "" THEN r
                        ELSE ApplyPaths(r.val, changes, todo \ {path})
         IN  then(ApplyOne(target, path, changes[path]))

\* Diff.apply_changes(target, changes): [err, val], val the mutated target
apply_changes(target, changes) == ApplyPaths(target, changes, DOMAIN changes)

(***************************************************************************)
(* User code: node bodies and dynamic routers.  The state class has the    *)
(* fields value: int = 0 and name: str = "" (tests/test_graph.py).         *)
(***************************************************************************)
Fields == {"value", "name", "data"}

FieldDefault ==
    [k \in Fields |->
        IF k = "value" THEN VInt(0)
        ELSE IF k = "name" THEN VStr("")
        ELSE VDict([a \in {"a"} |-> VDict([b \in {"b"} |-> VInt(1)])])]

\* state.model_dump()
model_dump(obj) == VDict(obj)

\* type(state).model_validate(state_dict): declared fields only, defaults
\* for missing ones
model_validate(d) ==
    [k \in Fields |-> IF k \in DOMAIN d.v THEN d.v[k] ELSE FieldDefault[k]]

\* the effect of awaiting node n on its state object: [err, obj]
RunNode(n, obj) ==
    CASE n \in {"inc", "inc2", "a", "loop"} ->
            [err |-> "", obj |-> [obj EXCEPT !["value"] = VInt(@.v + 1)]]
      [] n = "setV" -> [err |-> "", obj |-> [obj EXCEPT !["value"] = VInt(9)]]
      [] n = "set1" -> [err |-> "", obj |-> [obj EXCEPT !["value"] = VInt(1)]]
      [] n = "set2" -> [err |-> "", obj |-> [obj EXCEPT !["value"] = VInt(2)]]
      [] n \in {"setName", "x"} ->
            [err |-> "", obj |-> [obj EXCEPT !["name"] = VStr("hello")]]
      [] n = "recover" ->
            [err |-> "", obj |-> [obj EXCEPT !["name"] = VStr("recovered")]]
      [] n = "rec2" -> [err |-> "", obj |-> [obj EXCEPT !["name"] = VStr("rec2")]]
      [] n = "rec3" -> [err |-> "", obj |-> [obj EXCEPT !["value"] = VInt(3)]]
      [] n = "raiseV" -> [err |-> "ValueError", obj |-> obj]
      [] n \in {"raiseR", "raiseR2"} -> [err |-> "RuntimeError", obj |-> obj]
      [] n = "raiseT" -> [err |-> "TypeError", obj |-> obj]
      [] n = "setA" ->
            [err |-> "",
             obj |-> [obj EXCEPT !["data"] = VDict([@.v EXCEPT !["a"] = VInt(5)])]]
      [] n = "setAB" ->
            [err |-> "",
             obj |-> [obj EXCEPT !["data"] =
                         VDict([@.v EXCEPT !["a"] = VDict([b \in {"b"} |-> VInt(2)])])]]
      [] n = "delA" ->
            [err |-> "",
             obj |-> [obj EXCEPT !["data"] = VDict([k \in {} |-> VNone])]]
      [] n = "setRaise" ->
            [err |-> "ValueError", obj |-> [obj EXCEPT !["value"] = VInt(5)]]
      [] OTHER -> [err |-> "", obj |-> obj]

\* calling router f with the state: [err, next]
Router(f, obj) ==
    CASE f = "toNone" -> [err |-> "", next |-> VNone]
      [] f = "ifPos" ->
            [err |-> "",
             next |-> IF obj["value"].v > 0 THEN VNode("noop") ELSE VNone]
      [] f = "raiseRouter" -> [err |-> "RouterError", next |-> VNone]
      [] f = "ioRouter" -> [err |-> "", next |-> VNode("noop")]
      [] f = "toListEnd" ->
            [err |-> "", next |-> VList(<<VNode("noop"), VEND>>)]
      [] OTHER -> [err |-> "", next |-> VList(<<VNode("noop"), VNone>>)]

(***************************************************************************)
(* graph/graphs.py: the next resolver and the error router.  A NextNode is *)
(* [node, reached_by]: node a node name, reached_by the entry.             *)
(***************************************************************************)
RECURSIVE NextNodesFrom(_, _, _)
\* the loop "for x in next: match(x)" of get_next_nodes
NextNodesFrom(next, k, acc) ==
    IF k > Len(next.v) THEN [err |-> "", nodes |-> acc]
    ELSE LET x == next.v[k]
         IN  IF x.t = "None" THEN NextNodesFrom(next, k + 1, acc)
             ELSE IF IsType(x) THEN
                 \* assert next is END, with next the whole sequence
                 [err |-> "AssertionError", nodes |-> acc]
             ELSE IF x.t = "node"
                 THEN NextNodesFrom(next, k + 1, Append(acc, x.v))
             ELSE NextNodesFrom(next, k + 1, acc)

\* a flattening that takes every resolved next for a node
EveryNextIsNode(next) == [err |-> "", nodes |-> <<"inc">>]

get_next_nodes(next) ==
    IF is_single_next_sequence(next) THEN NextNodesFrom(next, 1, <<>>)
    ELSE IF is_single_next(next) THEN
        IF next.t = "node" THEN [err |-> "", nodes |-> <<next.v>>]
        ELSE [err |-> "", nodes |-> <<>>]
    ELSE [err |-> "", nodes |-> <<>>]

resolve_entry(obj, entry) ==
    LET routers == IF ~is_resolved_next(entry.next) THEN <<entry.next.v>>
                   ELSE <<>>
        wrap(ns) ==
            IF ns.err # ""
                THEN [err |-> ns.err, nodes |-> <<>>, routers |-> routers]
            ELSE [err |-> "",
                  nodes |-> [k \in DOMAIN ns.nodes |->
                                [node |-> ns.nodes[k], reached_by |-> entry]],
                  routers |-> routers]
        resolve(called) ==
            IF called.err # ""
                THEN [err |-> called.err, nodes |-> <<>>, routers |-> routers]
            ELSE wrap(get_next_nodes(called.next))
    IN  resolve(IF ~is_resolved_next(entry.next)
                THEN Router(entry.next.v, obj)
                ELSE [err |-> "", next |-> entry.next])

RECURSIVE ResolveFrom(_, _, _, _)
\* resolve_entries from entry k on: the error, the NextNodes and the routers
\* called with (state, shared), in call order
ResolveFrom(obj, entries, k, acc) ==
    IF k > Len(entries) THEN [err |-> "", nodes |-> acc, routers |-> <<>>]
    ELSE LET rest(r) == ResolveFrom(obj, entries, k + 1, acc \o r.nodes)
             add(r) ==
                 IF r.err # ""
                     THEN [err |-> r.err, nodes |-> acc, routers |-> r.routers]
                 ELSE [rest(r) EXCEPT !.routers = r.routers \o @]
         IN  add(resolve_entry(obj, entries[k]))

resolve_entries(obj, entries) == ResolveFrom(obj, entries, 1, <<>>)

RECURSIVE Flatten(_)
Flatten(ss) == IF ss = <<>> THEN <<>> ELSE Head(ss) \o Flatten(Tail(ss))

\* the entries of the given sources, in source order
EntriesOf(branch, sources) ==
    Flatten([k \in DOMAIN sources |-> Lookup(branch.edge_index, sources[k])])

\* the instant entries leaving the nodes of current_instant_next_list
InstantEntries(branch, current_instant_next_list) ==
    SelectSeq(
        EntriesOf(branch, [k \in DOMAIN current_instant_next_list |->
                              VNode(current_instant_next_list[k].node)]),
        LAMBDA entry : entry.config.v)

RECURSIVE InstantWalk(_, _, _, _)
\* the "while True" loop of get_next
InstantWalk(obj, branch, current_instant_next_list, next_list) ==
    LET rest(r) == InstantWalk(obj, branch, r.nodes, next_list \o r.nodes)
        extend(r) ==
            IF r.err # ""
                THEN [err |-> r.err, nodes |-> next_list, routers |-> r.routers]
            ELSE [rest(r) EXCEPT !.routers = r.routers \o @]
        walk(current_entries) ==
            IF current_entries = <<>>
                THEN [err |-> "", nodes |-> next_list, routers |-> <<>>]
            ELSE extend(resolve_entries(obj, current_entries))
    IN  walk(InstantEntries(branch, current_instant_next_list))

\* a next resolver whose instant walk starts from the nodes just resolved
GetNextWalking(obj, current_nodes, branch) ==
    LET rest(primary) ==
            InstantWalk(obj, branch, primary.nodes, primary.nodes)
        instant(primary) ==
            IF primary.err # ""
                THEN [err |-> primary.err, nodes |-> <<>>,
                      routers |-> primary.routers]
            ELSE [rest(primary) EXCEPT !.routers = primary.routers \o @]
    IN  instant(resolve_entries(obj, EntriesOf(branch, current_nodes)))

\* get_next(state, shared, current_nodes, branch); current_nodes is the
\* sequence of single sources (a single source is passed as <<source>>)
get_next(obj, current_nodes, branch) ==
    LET rest(primary) == InstantWalk(obj, branch, <<>>, primary.nodes)
        instant(primary) ==
            IF primary.err # ""
                THEN [err |-> primary.err, nodes |-> <<>>,
                      routers |-> primary.routers]
            ELSE [rest(primary) EXCEPT !.routers = primary.routers \o @]
    IN  instant(resolve_entries(obj, EntriesOf(branch, current_nodes)))

\* a matcher that ignores the exception class
MatchAnyClass(e, source, source_node) ==
    source.t = "exc" \/ source.v[1] = VNode(source_node.node)

\* match_error(e, source, source_node), e given by its exception class
match_error(e, source, source_node) ==
    IF source.t = "exc" THEN IsSubclass(e, source.v)
    ELSE source.v[1] = VNode(source_node.node) /\ IsSubclass(e, source.v[2].v)

RECURSIVE SortInsert(_, _)
\* insert entry x into the index-sorted sequence s, after its equals
SortInsert(s, x) ==
    IF s = <<>> THEN <<x>>
    ELSE IF Head(s).index <= x.index THEN <<Head(s)>> \o SortInsert(Tail(s), x)
    ELSE <<x>> \o s

\* the entries left in the order of the index lookup
Unsorted(s) == s

RECURSIVE SortByIndex(_)
\* entries.sort(key=lambda x: x.index): a stable sort
SortByIndex(s) ==
    IF s = <<>> THEN <<>>
    ELSE SortInsert(SortByIndex(SubSeq(s, 1, Len(s) - 1)), s[Len(s)])

\* the matching error entries of one error, sorted (graphs.py 478-485)
MatchedEntries(e, source_node, branch) ==
    LET entries(matched) ==
            Flatten([k \in DOMAIN matched |->
                        Lookup(branch.error_edge_index, matched[k])])
    IN  SortByIndex(
            entries(SelectSeq(Keys(branch.error_edge_index),
                              LAMBDA key : match_error(e, key, source_node))))

\* a guard that lets every entry through
EligibleAlways(entry, source_node) == TRUE

\* the guard of graphs.py line 487
Eligible(entry, source_node) == entry.index > source_node.reached_by.index

RECURSIVE WalkEntries(_, _, _, _, _)
\* the "for entry in entries" loop: the nodes collected, the entries
\* resolved and whether the loop ended by break
WalkEntries(obj, entries, k, source_node, acc) ==
    IF k > Len(entries) THEN acc
    ELSE IF Eligible(entries[k], source_node) THEN
        LET extend(r) ==
                LET acc2 == [err |-> r.err, nodes |-> acc.nodes \o r.nodes,
                             resolved |-> Append(acc.resolved, entries[k]),
                             broke |-> FALSE]
                IN  IF r.err # "" THEN acc2
                    ELSE IF ~entries[k].config.v
                        THEN [acc2 EXCEPT !.broke = TRUE]
                    ELSE WalkEntries(obj, entries, k + 1, source_node, acc2)
        IN  extend(resolve_entry(obj, entries[k]))
    ELSE WalkEntries(obj, entries, k + 1, source_node, acc)

\* the routing of one error of the group
RouteOne(obj, e, branch) ==
    WalkEntries(obj, MatchedEntries(e.exc, e.source_node, branch), 1,
                e.source_node,
                [err |-> "", nodes |-> <<>>, resolved |-> <<>>, broke |-> FALSE])

RECURSIVE RouteFrom(_, _, _, _, _)
RouteFrom(obj, exceptions, k, branch, acc) ==
    IF k > Len(exceptions) THEN acc
    ELSE LET e == exceptions[k]
             extend(r) ==
                 LET acc2 ==
                         [err |-> r.err,
                          next_nodes |-> acc.next_nodes \o r.nodes,
                          unhandled |-> IF r.broke THEN acc.unhandled
                                        ELSE Append(acc.unhandled, e),
                          routed |-> Append(acc.routed,
                                        [exc |-> e.exc,
                                         source_node |-> e.source_node,
                                         resolved |-> r.resolved,
                                         consumed |-> r.broke])]
                 IN  IF r.err # "" THEN acc2
                     ELSE RouteFrom(obj, exceptions, k + 1, branch, acc2)
         IN  extend(RouteOne(obj, e, branch))

\* a router that looks at the first error of the group only
RouteFirstOnly(obj, exceptions, branch) ==
    RouteFrom(obj, SubSeq(exceptions, 1, 1), 1, branch,
              [err |-> "", next_nodes |-> <<>>, unhandled |-> <<>>,
               routed |-> <<>>])

\* get_next_from_error(state, shared, eg, branch): err is the error a router
\* raised, unhandled the errors of the group that is raised when non-empty
get_next_from_error(obj, exceptions, branch) ==
    RouteFrom(obj, exceptions, 1, branch,
              [err |-> "", next_nodes |-> <<>>, unhandled |-> <<>>,
               routed |-> <<>>])

(***************************************************************************)
(* The graphs under run.  A graph is [containers, on_error, raises]: the   *)
(* branch containers passed to Graph(edges=...), the on_error behaviour of *)
(* the registered hooks, in registration order, and the hook method in     *)
(* which the first hook raises ("" when no hook raises).                   *)
(***************************************************************************)
N(n) == VNode(n)

\* a container that joins at END
Main(edges) == [edges |-> edges, join |-> VEND]

G(containers) == [containers |-> containers, on_error |-> <<>>, raises |-> ""]

\* test_error_edge_by_exception_type
S5Graph ==
    G(<<Main(<< <<VSTART, N("raiseV")>>, <<VExc("ValueError"), N("recover")>> >>)>>)

\* test_error_edge_by_node_and_exception_type
S6Graph ==
    G(<<Main(<< <<VSTART, N("raiseR")>>,
                <<VTuple(<<N("raiseR"), VExc("RuntimeError")>>), N("recover")>> >>)>>)

\* an error edge scoped to a list of nodes, with an explicit error config
NodeListErrorGraph ==
    G(<<Main(<< <<VSTART, N("raiseV")>>,
                <<VTuple(<<VList(<<N("raiseV"), N("raiseR")>>), VExc("Exception")>>),
                  N("recover"), VErrorConfig(FALSE)>> >>)>>)

\* test_instant_node_runs_in_same_step
S8Graph ==
    G(<<Main(<< <<VSTART, N("inc")>>,
                <<N("inc"), N("noop"), VConfig(TRUE)>> >>)>>)

\* three error edges after the raising edge: a propagating one, a
\* consuming one and one more
PropagateGraph ==
    G(<<Main(<< <<VSTART, N("raiseV")>>,
                <<VExc("ValueError"), N("recover"), VErrorConfig(TRUE)>>,
                <<VExc("Exception"), N("rec3"), VErrorConfig(FALSE)>>,
                <<VExc("ValueError"), N("rec2"), VErrorConfig(FALSE)>> >>)>>)

\* two sub-branches spawned at a, both joining at c
TwoSubGraph ==
    G(<<Main(<< <<VSTART, N("a")>>, <<N("a"), N("c")>> >>),
        [edges |-> << <<N("a"), N("x")>> >>, join |-> N("c")],
        [edges |-> << <<N("a"), N("rec3")>> >>, join |-> N("c")]>>)

\* two branches from START that both reach c, where the sub-branch spawned
\* at a joins
RaceGraph ==
    G(<<Main(<< <<VSTART, N("a")>>, <<N("a"), N("c")>>,
                <<N("c"), N("recover")>> >>),
        Main(<< <<VSTART, N("b")>>, <<N("b"), N("c")>> >>),
        [edges |-> << <<N("a"), N("x")>> >>, join |-> N("c")]>>)

\* a sub-branch spawned at a whose own edge leads to c, the node it joins at
SelfJoinGraph ==
    G(<<Main(<< <<VSTART, N("a")>>, <<N("a"), N("c")>> >>),
        [edges |-> << <<N("a"), N("c")>> >>, join |-> N("c")]>>)

\* two branches from START, each with a router that awaits
TwoRouterGraph ==
    G(<<Main(<< <<VSTART, N("a")>>, <<N("a"), VCallable("ioRouter")>> >>),
        Main(<< <<VSTART, N("b")>>, <<N("b"), VCallable("ioRouter")>> >>)>>)

\* two branches from START, the first of which fails in its first step
FailingBranchGraph ==
    G(<<Main(<< <<VSTART, N("raiseT")>> >>),
        Main(<< <<VSTART, N("inc")>>, <<N("inc"), N("inc2")>> >>)>>)

\* a diamond: c is reached through a and through b in the same step, and
\* a sub-branch starts at c
DiamondGraph ==
    G(<<Main(<< <<VSTART, VList(<<N("a"), N("b")>>)>>, <<N("a"), N("c")>>,
                <<N("b"), N("c")>> >>),
        Main(<< <<N("c"), N("x")>> >>)>>)

\* an on_graph_start hook that raises, with an absorbing on_error hook
HookRaisesAtStartGraph ==
    [containers |-> <<Main(<< <<VSTART, N("inc")>> >>)>>,
     on_error |-> <<"absorb">>, raises |-> "on_graph_start"]

\* the seed scenarios of the tests and close variants
SeedGraphs ==
    { G(<<>>),
      G(<<Main(<< <<VSTART, VNone>> >>)>>),
      G(<<Main(<< <<VSTART, VEND>> >>)>>),
      G(<<Main(<< <<VSTART, VNone>>, <<N("inc"), N("inc2")>> >>)>>),
      G(<<Main(<< <<VSTART, N("inc")>> >>)>>),
      G(<<Main(<< <<VSTART, N("inc")>>, <<N("inc"), N("inc2")>>,
                  <<N("inc2"), VNone>> >>)>>),
      G(<<Main(<< <<VSTART, N("inc"), N("inc2"), VEND>> >>)>>),
      G(<<Main(<< <<VSTART, N("inc")>>,
                  <<N("inc"), N("inc2"), N("noop"), VNone>> >>)>>),
      G(<<Main(<< <<VSTART, VList(<<N("setV"), N("setName")>>)>>,
                  <<N("setV"), N("noop")>> >>)>>),
      G(<<Main(<< <<VSTART, VList(<<N("setV"), N("setName")>>)>>,
                  <<VList(<<N("setV"), N("setName")>>), N("noop")>> >>)>>),
      G(<<Main(<< <<VSTART, VList(<<N("setV"), N("setName")>>)>>,
                  <<VList(<<N("setV"), N("setName")>>), N("noop"),
                    VConfig(FALSE)>> >>)>>),
      G(<<Main(<< <<VSTART, VList(<<N("set1"), N("set2")>>)>> >>)>>),
      G(<<Main(<< <<VSTART, VList(<<N("set1"), N("set2"), N("setName")>>)>> >>)>>),
      G(<<Main(<< <<VSTART, VList(<<N("setA"), N("setAB")>>)>> >>)>>),
      G(<<Main(<< <<VSTART, VList(<<N("setAB"), N("setA")>>)>> >>)>>),
      G(<<Main(<< <<VSTART, VList(<<N("delA"), N("setAB")>>)>> >>)>>),
      G(<<Main(<< <<VSTART, VList(<<N("setAB"), N("setName"), N("inc")>>)>> >>)>>),
      S5Graph,
      S6Graph,
      NodeListErrorGraph,
      G(<<Main(<< <<VSTART, N("inc")>>,
                  <<N("inc"), N("noop"), VErrorConfig(FALSE)>> >>)>>),
      G(<<Main(<< <<VSTART, N("raiseV")>>,
                  <<VExc("ValueError"), N("recover"), VConfig(FALSE)>> >>)>>),
      PropagateGraph,
      G(<<Main(<< <<VSTART, N("raiseT")>> >>)>>),
      [containers |-> <<Main(<< <<VSTART, N("raiseT")>> >>)>>,
       on_error |-> <<"absorb">>, raises |-> ""],
      [containers |-> <<Main(<< <<VSTART, VList(<<N("set1"), N("set2")>>)>> >>)>>,
       on_error |-> <<"keep", "absorb">>, raises |-> ""],
      [containers |-> <<Main(<< <<VSTART, N("inc")>>, <<N("inc"), N("raiseT")>> >>)>>,
       on_error |-> <<"replace", "absorb">>, raises |-> ""],
      [containers |-> <<Main(<< <<VSTART, N("inc")>>, <<N("inc"), N("raiseT")>> >>)>>,
       on_error |-> <<"absorb", "replace">>, raises |-> ""],
      [containers |-> <<Main(<< <<VSTART, N("raiseT")>> >>)>>,
       on_error |-> <<"replace", "keep">>, raises |-> ""],
      [containers |-> <<Main(<< <<VSTART, N("raiseT")>> >>)>>,
       on_error |-> <<"keep", "replace">>, raises |-> ""],
      G(<<Main(<< <<VSTART, N("inc")>>, <<N("inc"), VCallable("raiseRouter")>>,
                  <<VExc("Exception"), N("recover")>> >>)>>),
      G(<<Main(<< <<VSTART, N("raiseV")>>,
                  <<VExc("ValueError"), VCallable("raiseRouter")>>,
                  <<VExc("Exception"), N("recover")>> >>)>>),
      [containers |-> <<Main(<< <<VSTART, N("inc")>>,
                               <<VExc("Exception"), N("recover")>> >>)>>,
       on_error |-> <<"keep">>, raises |-> "on_step_start"],
      [containers |-> <<Main(<< <<VSTART, N("inc")>>,
                               <<VExc("Exception"), N("recover")>> >>)>>,
       on_error |-> <<"absorb">>, raises |-> "on_step_start"],
      HookRaisesAtStartGraph,
      G(<<Main(<< <<VSTART, N("raiseR")>>, <<VExc("ValueError"), N("recover")>> >>)>>),
      G(<<Main(<< <<VSTART, VList(<<N("setRaise"), N("setName")>>)>>,
                  <<VExc("Exception"), N("recover")>> >>)>>),
      S8Graph,
      G(<<Main(<< <<VSTART, N("inc")>>, <<N("inc"), N("noop"), VConfig(TRUE)>>,
                  <<N("noop"), N("setName"), VConfig(TRUE)>> >>)>>),
      G(<<Main(<< <<VSTART, N("inc")>>, <<N("inc"), VCallable("toNone")>> >>)>>),
      G(<<Main(<< <<VSTART, N("inc")>>, <<N("inc"), VCallable("ifPos")>> >>)>>),
      G(<<Main(<< <<VSTART, N("inc")>>, <<N("inc"), VCallable("toList")>> >>)>>),
      G(<<Main(<< <<VSTART, N("inc")>>, <<N("inc"), VCallable("toListEnd")>> >>)>>),
      G(<<Main(<< <<VSTART, N("inc")>>, <<N("inc"), VList(<<N("noop"), VEND>>)>> >>)>>),
      G(<<Main(<< <<VSTART, N("loop")>>, <<N("loop"), N("loop")>> >>)>>),
      G(<<Main(<< <<VSTART, N("a")>>, <<N("a"), N("b")>>, <<N("b"), N("c")>> >>),
          [edges |-> << <<N("a"), N("x")>> >>, join |-> N("c")]>>),
      TwoSubGraph,
      RaceGraph,
      DiamondGraph,
      TwoRouterGraph,
      SelfJoinGraph,
      FailingBranchGraph,
      G(<<Main(<< <<VSTART, N("inc")>>, <<N("inc"), VCallable("ioRouter")>> >>)>>) }

\* the error edges the routing family draws from
HandlerPool(target) ==
    { <<VExc("ValueError"), N(target), VErrorConfig(FALSE)>>,
      <<VExc("ValueError"), N(target), VErrorConfig(TRUE)>>,
      <<VExc("Exception"), N(target), VErrorConfig(FALSE)>>,
      <<VExc("Exception"), N(target), VErrorConfig(TRUE)>>,
      <<VTuple(<<N("raiseR"), VExc("RuntimeError")>>), N(target),
        VErrorConfig(FALSE)>>,
      <<VTuple(<<N("raiseV"), VExc("Exception")>>), N(target),
        VErrorConfig(TRUE)>> }

\* Two raising nodes reached through the edge at position 2, with one error
\* edge before it and two after it.
RoutingGraphs ==
    { G(<<Main(<< <<VSTART, N("noop")>>, h1,
                  <<N("noop"), VList(<<N("raiseV"), N("raiseR")>>)>>,
                  h2, h3 >>)>>) :
        h1 \in HandlerPool("recover"), h2 \in HandlerPool("rec2"),
        h3 \in HandlerPool("rec3") }

Graphs == SeedGraphs \cup RoutingGraphs

(***************************************************************************)
(* The run.  State objects live in a heap and are held by reference, so a  *)
(* copy that is not deep is visible as sharing.  Branch tasks run on one   *)
(* cooperative scheduler: cur is the task that holds the event loop (0     *)
(* when it is idle) and ready is the FIFO of woken branch tasks.           *)
(***************************************************************************)
VARIABLES
    graph,          \* the graph under run
    registry,       \* Graph.branch_registry: the Branch objects, in order
    heap,           \* state objects by reference
    run,            \* Graph.__call__: [pc, state, final, err, trace]
    tasks,          \* the run_branch tasks, in creation order
    result,         \* Branch.result of every Branch: a future or 0 (None)
    futures,        \* the result futures: [done, val, waiters]
    join_registry,  \* Graph.join_registry
    ready,          \* branch tasks scheduled to run, in FIFO order
    cur,            \* the branch task running, 0 if none
    call            \* a direct call of a Diff method: [op, old, new, changes,
                    \* ret, err]

vars == <<graph, registry, heap, run, tasks, result, futures, join_registry,
          ready, cur, call>>

\* no direct call of a Diff method is under way
NoCall ==
    [op |-> "none", old |-> VNone, new |-> VNone, changes |-> <<>>,
     ret |-> VNone, err |-> ""]

\* steps one branch task may take
MaxSteps == 4

NodeNames ==
    {"inc", "inc2", "setV", "setName", "set1", "set2", "noop", "raiseV",
     "raiseR", "raiseT", "recover", "rec2", "rec3", "setA", "setAB", "delA",
     "setRaise", "loop", "a", "b", "c", "x"}

JoinKeys == {VEND, VNone} \cup {VNode(n) : n \in NodeNames}

\* a copy that shares the object instead of duplicating it
SharedCopy(h, ref) == [heap |-> h, ref |-> ref]

\* state.model_copy(deep=True): a new object with an equal mapping
model_copy(h, ref) == [heap |-> Append(h, h[ref]), ref |-> Len(h) + 1]

\* a validation that writes mapping obj into the first state object
\* instead of making an object
ValidateInPlace(h, obj) == [heap |-> [h EXCEPT ![1] = obj], ref |-> 1]

\* a new state object holding mapping obj
NewObject(h, obj) == [heap |-> Append(h, obj), ref |-> Len(h) + 1]

\* the shared object passed to Graph.__call__: shared objects are known by
\* reference, and a copy of an object is an object with another reference
GivenShared == [ref |-> 1]

\* the value of "returned" while Graph.__call__ has not returned
NoShared == [ref |-> 0]

\* the call callee(..., shared) of a node, a router or a hook
Received(kind, callee, shared) ==
    [kind |-> kind, callee |-> callee, shared |-> shared]

\* the calls callee(..., shared) for the callees, in order
ReceivedAll(kind, callees, shared) ==
    [k \in DOMAIN callees |-> Received(kind, callees[k], shared)]

\* the task object asyncio.create_task makes for
\* run_branch(state, shared, branch)
NewTask(bid, state, shared) ==
    [bid |-> bid, pc |-> "created", state |-> state, shared |-> shared,
     seen |-> <<>>, initial_state |-> 0,
     next_nodes |-> <<>>, result_states |-> <<>>, status |-> <<>>,
     errors |-> <<>>, order |-> <<>>, changes |-> <<>>, jn |-> 1, ji |-> 1,
     jfut |-> 0, jbid |-> 0, exc |-> "", unhandled |-> <<>>, routed |-> <<>>,
     steps |-> 0, trace |-> <<>>, hooked |-> <<>>]

\* branch_registry[source]: the ids of the branches that start at source
BranchesAt(reg, source) ==
    SelectSeq([k \in DOMAIN reg |-> k], LAMBDA k : reg[k].start = source)

RECURSIVE RegisterAll(_, _, _)
\* join_registry[branch.join].append(branch) for every spawned branch
RegisterAll(jr, reg, bids) ==
    IF bids = <<>> THEN jr
    ELSE RegisterAll([jr EXCEPT ![reg[Head(bids)].join] = Append(@, Head(bids))],
                     reg, Tail(bids))

NodeList(next_nodes) == [k \in DOMAIN next_nodes |-> next_nodes[k].node]

Event(ev, next_nodes) == [ev |-> ev, nodes |-> NodeList(next_nodes)]

Init ==
    /\ graph \in Graphs
    /\ LET construct(c) ==
               /\ registry = c.branches
               /\ run = [pc |-> IF c.err = "" THEN "new" ELSE "construct_failed",
                         state |-> 1, final |-> 0, err |-> c.err,
                         trace |-> <<>>, shared |-> GivenShared,
                         seen |-> <<>>, returned |-> NoShared]
               /\ result = [k \in DOMAIN c.branches |-> 0]
       IN  construct(index_branches(graph.containers))
    /\ heap = <<FieldDefault>>
    /\ tasks = <<>>
    /\ futures = <<>>
    /\ join_registry = [k \in JoinKeys |-> <<>>]
    /\ ready = <<>>
    /\ cur = 0
    /\ call = NoCall

\* a graph hook called with state object ref
GraphEvent(ev, ref) == [ev |-> ev, state |-> ref]

\* a spawn_branch that hands the branch a snapshot of the shared object
SpawnWithSnapshot(bid, state, shared) ==
    NewTask(bid, state, [ref |-> shared.ref + 1])

\* spawn_branch(state, shared, branch) (graphs.py 261-265)
spawn_branch(bid, state, shared) == NewTask(bid, state, shared)

\* spawn_branch for each of bids, all on the state object ref and the
\* shared object shared
SpawnAll(bids, ref, shared) ==
    /\ join_registry' = RegisterAll(join_registry, registry, bids)
    /\ tasks' = tasks \o [k \in DOMAIN bids |->
                              spawn_branch(bids[k], ref, shared)]
    /\ ready' = ready \o [k \in DOMAIN bids |-> Len(tasks) + k]

\* Graph.__call__ up to the exit of the task group (graphs.py 123-131)
RunStart ==
    /\ run.pc = "new"
    /\ cur = 0
    /\ IF graph.raises = "on_graph_start"
       THEN /\ run' = [run EXCEPT !.pc = "raised", !.err = "HookRaised",
                                  !.trace = Append(@, GraphEvent("on_graph_start",
                                                                 run.state)),
                                  !.seen = Append(@, Received("hook",
                                                              "on_graph_start",
                                                              run.shared))]
            /\ UNCHANGED <<join_registry, tasks, ready>>
       ELSE /\ SpawnAll(BranchesAt(registry, VSTART), run.state, run.shared)
            /\ run' = [run EXCEPT !.pc = "tg_wait",
                                  !.trace = Append(@, GraphEvent("on_graph_start",
                                                                 run.state)),
                                  !.seen = Append(@, Received("hook",
                                                              "on_graph_start",
                                                              run.shared))]
    /\ UNCHANGED <<call, graph, registry, heap, result, futures, cur>>

\* run_branch up to the loop (graphs.py 166-172)
BranchStart(t) ==
    /\ cur = 0
    /\ ready # <<>> /\ Head(ready) = t
    /\ tasks[t].pc = "created"
    /\ LET branch == registry[tasks[t].bid]
           start(cp, nx) ==
               /\ heap' = cp.heap
               /\ tasks' = [tasks EXCEPT ![t] =
                     [@ EXCEPT !.initial_state = cp.ref,
                               !.next_nodes = nx.nodes,
                               !.exc = nx.err,
                               !.seen = @ \o ReceivedAll("router", nx.routers,
                                                         tasks[t].shared),
                               !.pc = IF nx.err = "" THEN "loop" ELSE "on_error"]]
       IN  /\ futures' = Append(futures,
                                [done |-> FALSE, val |-> <<>>, waiters |-> <<>>])
           /\ result' = [result EXCEPT ![tasks[t].bid] = Len(futures) + 1]
           /\ start(model_copy(heap, tasks[t].state),
                    get_next(heap[tasks[t].state], <<branch.start>>, branch))
    /\ ready' = Tail(ready)
    /\ cur' = t
    /\ UNCHANGED <<call, graph, registry, run, join_registry>>

\* the loop test and the on_step_start hooks (graphs.py 177-180)
StepStart(t) ==
    /\ cur = t
    /\ tasks[t].pc = "loop"
    /\ IF tasks[t].next_nodes = <<>>
       THEN tasks' = [tasks EXCEPT ![t] = [@ EXCEPT !.pc = "set_result"]]
       ELSE /\ tasks[t].steps < MaxSteps
            /\ tasks' = [tasks EXCEPT ![t] =
                  [@ EXCEPT !.pc = IF graph.raises = "on_step_start"
                                   THEN "on_error" ELSE "spawn",
                            !.exc = IF graph.raises = "on_step_start"
                                    THEN "HookRaised" ELSE @,
                            !.trace = Append(@, Event("on_step_start",
                                                      tasks[t].next_nodes)),
                            !.seen = Append(@, Received("hook", "on_step_start",
                                                        tasks[t].shared))]]
    /\ UNCHANGED <<call, graph, registry, heap, run, result, futures, join_registry,
                   ready, cur>>

\* spawn_branches (graphs.py 341-357)
SpawnBranches(t) ==
    /\ cur = t
    /\ tasks[t].pc = "spawn"
    /\ LET nn == tasks[t].next_nodes
           bids == Flatten([k \in DOMAIN nn |->
                               BranchesAt(registry, VNode(nn[k].node))])
           hooks == Flatten([k \in DOMAIN bids |->
                                <<"on_spawn_branch_start",
                                  "on_spawn_branch_end">>])
           me == [tasks[t] EXCEPT !.pc = "join", !.jn = 1, !.ji = 1,
                                  !.changes = <<>>,
                                  !.seen = @ \o ReceivedAll("hook", hooks,
                                                            tasks[t].shared)]
       IN  /\ join_registry' = RegisterAll(join_registry, registry, bids)
           /\ tasks' = [tasks EXCEPT ![t] = me]
                          \o [k \in DOMAIN bids |->
                                 spawn_branch(bids[k], tasks[t].state,
                                              tasks[t].shared)]
           /\ ready' = ready \o [k \in DOMAIN bids |-> Len(tasks) + k]
    /\ UNCHANGED <<call, graph, registry, heap, run, result, futures, cur>>

RECURSIVE ApplyAll(_, _, _)
\* "for change in changes: Diff.apply_changes(state_dict, change)"
ApplyAll(state_dict, changes, k) ==
    IF k > Len(changes) THEN [err |-> "", val |-> state_dict]
    ELSE LET then(r) == IF r.err # "" THEN r ELSE ApplyAll(r.val, changes, k + 1)
         IN  then(apply_changes(state_dict, changes[k]))

\* Graph.apply_changes(state, changes): the error raised, or the mapping of
\* the new state object
GraphApply(obj, changes) ==
    LET state_dict == model_dump(obj)
        conflicts == find_conflicts(changes)
        validate(r) == IF r.err # "" THEN [err |-> r.err, obj |-> obj]
                       ELSE [err |-> "", obj |-> model_validate(r.val)]
    IN  IF DOMAIN conflicts # {}
            THEN [err |-> "ChangeConflictException", obj |-> obj]
        ELSE validate(ApplyAll(state_dict, changes, 1))

RECURSIVE RemoveFirst(_, _)
\* list.remove(x) on a list that holds x
RemoveFirst(s, x) ==
    IF s = <<>> THEN <<>>
    ELSE IF Head(s) = x THEN Tail(s)
    ELSE <<Head(s)>> \o RemoveFirst(Tail(s), x)

RECURSIVE JoinLoop(_, _, _, _, _, _, _)
\* The loops of join_branches from next node jn and list position ji on, up
\* to the first await that suspends: k is "end", "await" or the error.
JoinLoop(jr, res, futs, nn, jn, ji, changes) ==
    IF jn > Len(nn)
        THEN [k |-> "end", jr |-> jr, changes |-> changes, jn |-> jn,
              ji |-> ji, fut |-> 0, bid |-> 0]
    ELSE LET key == VNode(nn[jn].node)
         IN  IF ji > Len(jr[key])
                 THEN JoinLoop(jr, res, futs, nn, jn + 1, 1, changes)
             ELSE LET b == jr[key][ji]
                  IN  IF res[b] = 0
                          THEN [k |-> "ValueError", jr |-> jr,
                                changes |-> changes, jn |-> jn, ji |-> ji,
                                fut |-> 0, bid |-> b]
                      ELSE IF ~futs[res[b]].done
                          THEN [k |-> "await", jr |-> jr, changes |-> changes,
                                jn |-> jn, ji |-> ji + 1, fut |-> res[b],
                                bid |-> b]
                      ELSE JoinLoop([jr EXCEPT ![key] = RemoveFirst(@, b)],
                                    res, futs, nn, jn, ji + 1,
                                    Append(changes, futs[res[b]].val))

\* what task t does with the outcome r of the join loops
JoinOutcome(t, r) ==
    /\ join_registry' = r.jr
    /\ IF r.k = "await" THEN
           /\ tasks' = [tasks EXCEPT ![t] =
                 [@ EXCEPT !.pc = "join_wait", !.jn = r.jn, !.ji = r.ji,
                           !.jfut = r.fut, !.jbid = r.bid,
                           !.changes = r.changes]]
           /\ futures' = [futures EXCEPT ![r.fut].waiters = Append(@, t)]
           /\ cur' = 0
           /\ heap' = heap
       ELSE IF r.k = "ValueError" THEN
           /\ tasks' = [tasks EXCEPT ![t] =
                 [@ EXCEPT !.pc = "on_error", !.exc = "ValueError"]]
           /\ UNCHANGED <<futures, heap>>
           /\ cur' = t
       ELSE LET applied(a) ==
                    IF a.err # "" THEN
                        /\ heap' = heap
                        /\ tasks' = [tasks EXCEPT ![t] =
                              [@ EXCEPT !.pc = "on_error", !.exc = a.err,
                                        !.changes = r.changes,
                                        !.trace =
                                            IF a.err = "ChangeConflictException"
                                            THEN Append(@, Event("on_merge_conflict", <<>>))
                                            ELSE @]]
                    ELSE
                        /\ heap' = NewObject(heap, a.obj).heap
                        /\ tasks' = [tasks EXCEPT ![t] =
                              [@ EXCEPT !.pc = "fanout",
                                        !.state = NewObject(heap, a.obj).ref,
                                        !.changes = r.changes]]
            IN  /\ UNCHANGED futures
                /\ cur' = t
                /\ applied(GraphApply(heap[tasks[t].state], r.changes))

\* join_branches, entered (graphs.py 187, 360-386)
JoinBranches(t) ==
    /\ cur = t
    /\ tasks[t].pc = "join"
    /\ JoinOutcome(t, JoinLoop(join_registry, result, futures,
                               tasks[t].next_nodes, 1, 1, <<>>))
    /\ UNCHANGED <<call, graph, registry, run, result, ready>>

\* join_branches, resumed when the awaited result is set (graphs.py 380-386)
JoinResume(t) ==
    /\ cur = 0
    /\ ready # <<>> /\ Head(ready) = t
    /\ tasks[t].pc = "join_wait"
    /\ ready' = Tail(ready)
    /\ LET key == VNode(tasks[t].next_nodes[tasks[t].jn].node)
           changes == Append(tasks[t].changes, futures[tasks[t].jfut].val)
       IN  JoinOutcome(t,
               IF \E j \in DOMAIN join_registry[key] :
                      join_registry[key][j] = tasks[t].jbid
               THEN JoinLoop([join_registry EXCEPT ![key] =
                                 RemoveFirst(@, tasks[t].jbid)],
                             result, futures, tasks[t].next_nodes,
                             tasks[t].jn, tasks[t].ji, changes)
               ELSE [k |-> "ValueError", jr |-> join_registry,
                     changes |-> changes, jn |-> tasks[t].jn,
                     ji |-> tasks[t].ji, fut |-> 0, bid |-> tasks[t].jbid])
    /\ UNCHANGED <<call, graph, registry, run, result>>

RECURSIVE CopyAll(_, _, _, _)
\* one deep copy of the state per next node (graphs.py 192-195)
CopyAll(h, ref, n, acc) ==
    IF n = 0 THEN [heap |-> h, refs |-> acc]
    ELSE LET cp == model_copy(h, ref)
         IN  CopyAll(cp.heap, ref, n - 1, Append(acc, cp.ref))

\* the fan-out: snapshots and node tasks (graphs.py 183, 191-197)
FanOut(t) ==
    /\ cur = t
    /\ tasks[t].pc = "fanout"
    /\ LET c == CopyAll(heap, tasks[t].state, Len(tasks[t].next_nodes), <<>>)
       IN  /\ heap' = c.heap
           /\ tasks' = [tasks EXCEPT ![t] =
                 [@ EXCEPT !.pc = "nodes", !.result_states = c.refs,
                           !.status = [k \in DOMAIN c.refs |-> "pending"],
                           !.errors = <<>>, !.order = <<>>,
                           !.unhandled = <<>>, !.routed = <<>>]]
    /\ cur' = 0
    /\ UNCHANGED <<call, graph, registry, run, result, futures, join_registry, ready>>

\* a step task group that exits when its first node has finished
FirstFinished(status) == \E k \in DOMAIN status : status[k] # "pending"

AllFinished(status) == \A k \in DOMAIN status : status[k] # "pending"

\* node_wrapper: node i of the step runs to its end (graphs.py 239-257)
NodeRun(t, i) ==
    /\ cur = 0
    /\ run.pc = "tg_wait"
    /\ tasks[t].pc = "nodes"
    /\ tasks[t].status[i] = "pending"
    /\ LET ref == tasks[t].result_states[i]
           finish(r) ==
               LET status == [tasks[t].status EXCEPT ![i] =
                                 IF r.err = "" THEN "done" ELSE "raised"]
               IN  /\ heap' = [heap EXCEPT ![ref] = r.obj]
                   /\ tasks' = [tasks EXCEPT ![t] =
                         [@ EXCEPT !.status = status,
                                   !.order = Append(@, i),
                                   !.seen = Append(@, Received("node",
                                                tasks[t].next_nodes[i].node,
                                                tasks[t].shared)),
                                   !.errors =
                                       IF r.err = "" THEN @
                                       ELSE Append(@, [exc |-> r.err,
                                                       source_node |-> tasks[t].next_nodes[i]])]]
                   /\ ready' = IF AllFinished(status) THEN Append(ready, t)
                               ELSE ready
       IN  finish(RunNode(tasks[t].next_nodes[i].node, heap[ref]))
    /\ UNCHANGED <<call, graph, registry, run, result, futures, join_registry, cur>>

\* the step's task group cancels node i after a sibling raised
NodeCancel(t, i) ==
    /\ cur = 0
    /\ run.pc = "tg_wait"
    /\ tasks[t].pc = "nodes"
    /\ tasks[t].status[i] = "pending"
    /\ \E j \in DOMAIN tasks[t].status : tasks[t].status[j] = "raised"
    /\ LET status == [tasks[t].status EXCEPT ![i] = "cancelled"]
       IN  /\ tasks' = [tasks EXCEPT ![t] = [@ EXCEPT !.status = status]]
           /\ ready' = IF AllFinished(status) THEN Append(ready, t) ELSE ready
    /\ UNCHANGED <<call, graph, registry, heap, run, result, futures, join_registry,
                   cur>>

\* a step that merges the result states although a node raised
MergeAnyway(errors) == "merge"

\* where run_branch goes on when the step's task group has exited: the
\* merge, or the except clause when the group raised (graphs.py 199-208)
AfterFanOut(errors) == IF errors = <<>> THEN "merge" ELSE "route"

\* the step's task group exits (graphs.py 191, 203)
StepResume(t) ==
    /\ cur = 0
    /\ ready # <<>> /\ Head(ready) = t
    /\ tasks[t].pc = "nodes"
    /\ ready' = Tail(ready)
    /\ cur' = t
    /\ tasks' = [tasks EXCEPT ![t] =
          [@ EXCEPT !.pc = AfterFanOut(tasks[t].errors)]]
    /\ UNCHANGED <<call, graph, registry, heap, run, result, futures, join_registry>>

\* the diffs taken in the order in which the nodes completed
CompletionOrderChanges(h, task) ==
    [k \in DOMAIN task.order |->
        recursive_diff(model_dump(h[task.state]),
                       model_dump(h[task.result_states[task.order[k]]]), <<>>)]

\* changes_list of merge_states: one diff per result state, in the order of
\* the result_states list (graphs.py 288-296)
changes_list(h, task) ==
    [k \in DOMAIN task.result_states |->
        recursive_diff(model_dump(h[task.state]),
                       model_dump(h[task.result_states[k]]), <<>>)]

\* merge_states and apply_changes (graphs.py 200, 269-338)
MergeStates(t) ==
    /\ cur = t
    /\ tasks[t].pc = "merge"
    /\ LET started == Append(tasks[t].trace, Event("on_merge_start", <<>>))
           applied(cl, a) ==
               IF a.err # "" THEN
                   /\ heap' = heap
                   /\ tasks' = [tasks EXCEPT ![t] =
                         [@ EXCEPT !.pc = "finally", !.exc = a.err,
                                   !.changes = cl,
                                   !.trace =
                                       IF a.err = "ChangeConflictException"
                                       THEN Append(started, Event("on_merge_conflict", <<>>))
                                       ELSE started]]
               ELSE
                   /\ heap' = NewObject(heap, a.obj).heap
                   /\ tasks' = [tasks EXCEPT ![t] =
                         [@ EXCEPT !.pc = "get_next",
                                   !.state = NewObject(heap, a.obj).ref,
                                   !.changes = cl,
                                   !.trace = Append(started, Event("on_merge_end", <<>>))]]
           merge(cl) == applied(cl, GraphApply(heap[tasks[t].state], cl))
       IN  merge(changes_list(heap, tasks[t]))
    /\ UNCHANGED <<call, graph, registry, run, result, futures, join_registry, ready,
                   cur>>

\* the routers that are coroutine functions and await before they return
\* ("async def router(state, shared): await asyncio.sleep(0); return noop")
AwaitingRouters == {"ioRouter"}

\* the entries get_next resolves first for the nodes of task t's step hold
\* an awaiting router (the graphs put such routers on node edges, not on
\* instant or error edges)
AwaitsRouter(t) ==
    LET nn == tasks[t].next_nodes
        entries == EntriesOf(registry[tasks[t].bid],
                             [k \in DOMAIN nn |-> VNode(nn[k].node)])
    IN  \E k \in DOMAIN entries :
            /\ entries[k].next.t = "callable"
            /\ entries[k].next.v \in AwaitingRouters

\* "next_nodes = await self.get_next(...)" of graphs.py 214, completed
AssignNext(t) ==
    LET nn == tasks[t].next_nodes
        assign(r) ==
            tasks' = [tasks EXCEPT ![t] =
                [@ EXCEPT !.pc = "finally", !.exc = r.err,
                          !.seen = @ \o ReceivedAll("router", r.routers,
                                                    tasks[t].shared),
                          !.next_nodes = IF r.err = "" THEN r.nodes ELSE @]]
    IN  assign(get_next(heap[tasks[t].state],
                        [k \in DOMAIN nn |-> VNode(nn[k].node)],
                        registry[tasks[t].bid]))

\* the else clause of the step: the next resolver, no router of which
\* suspends (graphs.py 214)
GetNext(t) ==
    /\ cur = t
    /\ tasks[t].pc = "get_next"
    /\ ~AwaitsRouter(t)
    /\ AssignNext(t)
    /\ UNCHANGED <<call, graph, registry, heap, run, result, futures, join_registry,
                   ready, cur>>

\* the next resolver calls a router that awaits: "next = await next"
\* suspends the branch task inside the router (graphs.py 549-552)
RouterAwait(t) ==
    /\ cur = t
    /\ tasks[t].pc = "get_next"
    /\ AwaitsRouter(t)
    /\ tasks' = [tasks EXCEPT ![t] = [@ EXCEPT !.pc = "router_wait"]]
    /\ ready' = Append(ready, t)
    /\ cur' = 0
    /\ UNCHANGED <<call, graph, registry, heap, run, result, futures, join_registry>>

\* the router returns and the next resolver ends (graphs.py 552-558, 214)
RouterResume(t) ==
    /\ cur = 0
    /\ ready # <<>> /\ Head(ready) = t
    /\ tasks[t].pc = "router_wait"
    /\ AssignNext(t)
    /\ ready' = Tail(ready)
    /\ cur' = t
    /\ UNCHANGED <<call, graph, registry, heap, run, result, futures, join_registry>>

\* the routers of the entries the error router resolved, in call order
ErrorRouters(routed) ==
    LET routers(entries) ==
            [k \in DOMAIN entries |-> entries[k].next.v]
        called(entries) ==
            routers(SelectSeq(entries,
                              LAMBDA entry : ~is_resolved_next(entry.next)))
    IN  Flatten([k \in DOMAIN routed |-> called(routed[k].resolved)])

\* the except clause of the step: the error router (graphs.py 203-208)
RouteError(t) ==
    /\ cur = t
    /\ tasks[t].pc = "route"
    /\ LET assign(r) ==
               tasks' = [tasks EXCEPT ![t] =
                   [@ EXCEPT !.pc = "finally",
                             !.routed = r.routed,
                             !.seen = @ \o ReceivedAll("router",
                                                       ErrorRouters(r.routed),
                                                       tasks[t].shared),
                             !.unhandled = r.unhandled,
                             !.exc = IF r.err # "" THEN r.err
                                     ELSE IF r.unhandled # <<>>
                                         THEN "ExceptionGroup"
                                     ELSE "",
                             !.next_nodes =
                                 IF r.err = "" /\ r.unhandled = <<>>
                                 THEN r.next_nodes ELSE @]]
       IN  assign(get_next_from_error(heap[tasks[t].state], tasks[t].errors,
                                      registry[tasks[t].bid]))
    /\ UNCHANGED <<call, graph, registry, heap, run, result, futures, join_registry,
                   ready, cur>>

\* the finally clause of the step: the on_step_end hooks (graphs.py 216-219)
StepEnd(t) ==
    /\ cur = t
    /\ tasks[t].pc = "finally"
    /\ tasks' = [tasks EXCEPT ![t] =
          [@ EXCEPT !.pc = IF tasks[t].exc = "" THEN "loop" ELSE "on_error",
                    !.steps = @ + 1,
                    !.seen = Append(@, Received("hook", "on_step_end",
                                                tasks[t].shared)),
                    !.trace = Append(@, Event("on_step_end", tasks[t].next_nodes))]]
    /\ UNCHANGED <<call, graph, registry, heap, run, result, futures, join_registry,
                   ready, cur>>

\* what an on_error hook of the given kind returns for error e: "" stands
\* for None, "keep" is the default GraphHook.on_error (hooks.py 142-153)
HookReturn(kind, e) ==
    IF kind = "absorb" THEN ""
    ELSE IF kind = "replace" THEN "HookError"
    ELSE e

RECURSIVE HookCallsNoBreak(_, _, _)
\* an on_error loop that goes on after a hook returned None
HookCallsNoBreak(hooks, k, e) ==
    IF k > Len(hooks) THEN <<>>
    ELSE <<[hook |-> k, error |-> e, ret |-> HookReturn(hooks[k], e)]>>
             \o HookCallsNoBreak(hooks, k + 1, HookReturn(hooks[k], e))

RECURSIVE HookCalls(_, _, _)
\* the on_error loop from hook k on, entered with error e: the calls made,
\* each with the error passed and the value returned (graphs.py 225-228)
HookCalls(hooks, k, e) ==
    IF k > Len(hooks) THEN <<>>
    ELSE LET e2 == HookReturn(hooks[k], e)
         IN  <<[hook |-> k, error |-> e, ret |-> e2]>>
                 \o (IF e2 = "" THEN <<>> ELSE HookCalls(hooks, k + 1, e2))

\* the value of e after the on_error loop
HookFold(hooks, k, e) ==
    LET calls == HookCalls(hooks, k, e)
    IN  IF calls = <<>> THEN e ELSE calls[Len(calls)].ret

\* a task group in which a failing task fails alone
AbortAlone(t, me, e) ==
    /\ tasks' = [tasks EXCEPT ![t] = [me EXCEPT !.pc = "failed", !.exc = e]]
    /\ cur' = 0
    /\ UNCHANGED <<run, ready>>

\* branch task t, left as record me, ends with error e: the run's task
\* group cancels the other branch tasks and Graph.__call__ raises the group
AbortWith(t, me, e) ==
    /\ tasks' = [k \in DOMAIN tasks |->
                    IF k = t THEN [me EXCEPT !.pc = "failed", !.exc = e]
                    ELSE IF tasks[k].pc = "done" THEN tasks[k]
                    ELSE [tasks[k] EXCEPT !.pc = "cancelled"]]
    /\ run' = [run EXCEPT !.pc = "raised", !.err = "ExceptionGroup"]
    /\ ready' = <<>>
    /\ cur' = 0

Abort(t, e) == AbortWith(t, tasks[t], e)

\* the except clause of run_branch (graphs.py 222-231)
OnError(t) ==
    /\ cur = t
    /\ tasks[t].pc = "on_error"
    /\ LET e == HookFold(graph.on_error, 1, tasks[t].exc)
           calls == HookCalls(graph.on_error, 1, tasks[t].exc)
           seen == tasks[t].seen
                       \o ReceivedAll("hook", [k \in DOMAIN calls |-> "on_error"],
                                      tasks[t].shared)
       IN  IF e = ""
           THEN /\ tasks' = [tasks EXCEPT ![t] =
                      [@ EXCEPT !.pc = "set_result", !.exc = "",
                                !.hooked = calls, !.seen = seen,
                                !.trace = Append(@, Event("on_error", <<>>))]]
                /\ UNCHANGED <<run, ready, cur>>
           ELSE AbortWith(t, [tasks[t] EXCEPT !.hooked = calls, !.seen = seen],
                          e)
    /\ UNCHANGED <<call, graph, registry, heap, result, futures, join_registry>>

\* branch.result.set_result(...) and the end of the task (graphs.py 235)
SetResult(t) ==
    /\ cur = t
    /\ tasks[t].pc = "set_result"
    /\ LET f == result[tasks[t].bid]
       IN  IF futures[f].done
           THEN /\ Abort(t, "InvalidStateError")
                /\ UNCHANGED futures
           ELSE /\ futures' = [futures EXCEPT ![f] =
                      [done |-> TRUE,
                       val |-> recursive_diff(
                                   model_dump(heap[tasks[t].initial_state]),
                                   model_dump(heap[tasks[t].state]), <<>>),
                       waiters |-> <<>>]]
                /\ tasks' = [tasks EXCEPT ![t] = [@ EXCEPT !.pc = "done"]]
                /\ ready' = ready \o futures[f].waiters
                /\ cur' = 0
                /\ run' = run
    /\ UNCHANGED <<call, graph, registry, heap, result, join_registry>>

\* a join at END that takes the first registered branch only
EndJoinFirstOnly(state_dict, bids, k) ==
    IF bids = <<>> THEN [err |-> "", val |-> state_dict]
    ELSE apply_changes(state_dict, futures[result[bids[1]]].val)

RECURSIVE EndJoin(_, _, _)
\* the join at END of Graph.__call__ (graphs.py 135-142)
EndJoin(state_dict, bids, k) ==
    IF k > Len(bids) THEN [err |-> "", val |-> state_dict]
    ELSE IF result[bids[k]] = 0 THEN [err |-> "ValueError", val |-> state_dict]
    ELSE LET then(r) == IF r.err # "" THEN r ELSE EndJoin(r.val, bids, k + 1)
         IN  then(apply_changes(state_dict, futures[result[bids[k]]].val))

\* a task group that lets its block end while tasks still run
ExitsAtOnce(ts) == TRUE

\* the end of "async with asyncio.TaskGroup()" in Graph.__call__: every
\* task created in the group has ended (graphs.py 125-131)
TaskGroupExited(ts) == \A k \in DOMAIN ts : ts[k].pc = "done"

\* Graph.__call__ after the task group (graphs.py 133-150)
RunEnd ==
    /\ run.pc = "tg_wait"
    /\ cur = 0
    /\ TaskGroupExited(tasks)
    /\ \A k \in DOMAIN join_registry[VEND] :
           result[join_registry[VEND][k]] # 0
               => futures[result[join_registry[VEND][k]]].done
    /\ LET finish(r) ==
               IF r.err # ""
               THEN /\ run' = [run EXCEPT !.pc = "raised", !.err = r.err]
                    /\ heap' = heap
               ELSE /\ run' = [run EXCEPT !.pc = "returned",
                                          !.final = Len(heap) + 1,
                                          !.returned = run.shared,
                                          !.seen = Append(@, Received("hook",
                                                              "on_graph_end",
                                                              run.shared)),
                                          !.trace =
                                              Append(@, GraphEvent("on_graph_end",
                                                                   Len(heap) + 1))]
                    /\ heap' = NewObject(heap, model_validate(r.val)).heap
       IN  finish(EndJoin(model_dump(heap[run.state]), join_registry[VEND], 1))
    /\ UNCHANGED <<call, graph, registry, tasks, result, futures, join_registry,
                   ready, cur>>

Next ==
    \/ RunStart
    \/ RunEnd
    \/ \E t \in DOMAIN tasks : BranchStart(t)
    \/ \E t \in DOMAIN tasks : StepStart(t)
    \/ \E t \in DOMAIN tasks : SpawnBranches(t)
    \/ \E t \in DOMAIN tasks : JoinBranches(t)
    \/ \E t \in DOMAIN tasks : JoinResume(t)
    \/ \E t \in DOMAIN tasks : FanOut(t)
    \/ \E t \in DOMAIN tasks : StepResume(t)
    \/ \E t \in DOMAIN tasks : MergeStates(t)
    \/ \E t \in DOMAIN tasks : GetNext(t)
    \/ \E t \in DOMAIN tasks : RouterAwait(t)
    \/ \E t \in DOMAIN tasks : RouterResume(t)
    \/ \E t \in DOMAIN tasks : RouteError(t)
    \/ \E t \in DOMAIN tasks : StepEnd(t)
    \/ \E t \in DOMAIN tasks : OnError(t)
    \/ \E t \in DOMAIN tasks : SetResult(t)
    \/ \E t \in DOMAIN tasks : \E i \in DOMAIN tasks[t].status : NodeRun(t, i)
    \/ \E t \in DOMAIN tasks : \E i \in DOMAIN tasks[t].status : NodeCancel(t, i)

Spec == Init /\ [][Next]_vars

\* The run on an event loop that keeps running what is ready: node bodies,
\* routers and hooks terminate, so a step that can be taken is taken.
\* the number of calls of the Graph object the model follows
MaxRuns == 2

\* the calls of the Graph object so far: every call starts with the
\* on_graph_start hooks (graphs.py 123)
Runs == Len(SelectSeq(run.trace, LAMBDA e : e.ev = "on_graph_start"))

\* the caller awaits the same Graph object again, with the same state and
\* shared objects, after a call that returned: __call__ starts over on the
\* object as the call before left it (graphs.py 117-150); the registries
\* are built in __init__ only (89-92), the result futures stay on the
\* Branch objects, the tasks of the earlier task group have ended
RunAgain ==
    /\ run.pc = "returned"
    /\ cur = 0
    /\ Runs < MaxRuns
    /\ run' = [run EXCEPT !.pc = "new", !.final = 0, !.err = "",
                          !.returned = NoShared]
    /\ tasks' = <<>>
    /\ UNCHANGED <<call, graph, registry, heap, result, futures, join_registry,
                   ready, cur>>

RerunNext == Next \/ RunAgain

RerunSpec == Init /\ [][RerunNext]_vars

(***************************************************************************)
(* Direct calls of the Diff methods, as the unit tests make them.  A call  *)
(* is drawn with its arguments; one action per method runs it.  The graph  *)
(* is not run.                                                             *)
(***************************************************************************)
\* the ints among the scalars are 1..MaxInt
MaxInt == 2

\* the longest list of changesets find_conflicts is called with
MaxLen == 3

CallKeys == {"a", "b"}

Scalars == {VInt(n) : n \in 1..MaxInt} \cup {VStr("s")}

\* the mappings with keys among ks and values in vals
MappingsOf(ks, vals) ==
    {VDict(f) : f \in UNION {[d -> vals] : d \in SUBSET ks}}

\* nested mappings: under each key a scalar or a mapping of scalars
Mappings ==
    MappingsOf(CallKeys,
               Scalars \cup MappingsOf(CallKeys, {VInt(1), VStr("s")}))

\* the changesets find_conflicts is called with
Changesets ==
    UNION {[d -> {Change("updated", VInt(0), VInt(1)),
                  Change("removed", VInt(0), VNone)}] :
              d \in SUBSET {<<"a">>, <<"a", "b">>}}

\* a changeset that removes the one path p
Removal(p) == [q \in {p} |-> Change("removed", VInt(1), VNone)]

\* the calls: recursive_diff(old, new), whose return value is then applied
\* to a deep copy of old; find_conflicts(changes); apply_changes(old,
\* changes) with a REMOVED change
Calls ==
    {[NoCall EXCEPT !.op = "recursive_diff", !.old = a, !.new = b] :
        a, b \in Mappings \cup Scalars}
    \cup {[NoCall EXCEPT !.op = "find_conflicts", !.changes = cs] :
              cs \in UNION {[1..n -> Changesets] : n \in 0..MaxLen}}
    \cup {[NoCall EXCEPT !.op = "apply_changes", !.old = a,
                         !.changes = Removal(p)] :
              a \in Mappings,
              p \in {<<k>> : k \in CallKeys}
                       \cup {<<k, l>> : k \in CallKeys, l \in CallKeys}}

DiffInit ==
    /\ call \in Calls
    /\ graph = G(<<>>)
    /\ registry = <<>>
    /\ heap = <<FieldDefault>>
    /\ run = [pc |-> "new", state |-> 1, final |-> 0, err |-> "",
              trace |-> <<>>, shared |-> GivenShared, seen |-> <<>>,
              returned |-> NoShared]
    /\ tasks = <<>>
    /\ result = <<>>
    /\ futures = <<>>
    /\ join_registry = [k \in JoinKeys |-> <<>>]
    /\ ready = <<>>
    /\ cur = 0

\* Diff.recursive_diff(old, new); its return value is the changes of the
\* apply_changes call that follows (diff.py 62-96)
CallDiff ==
    /\ call.op = "recursive_diff"
    /\ call' = [call EXCEPT !.op = "apply_changes",
                            !.changes = recursive_diff(call.old, call.new, <<>>)]
    /\ UNCHANGED <<graph, registry, heap, run, tasks, result, futures,
                   join_registry, ready, cur>>

\* Diff.apply_changes(target, changes) on a deep copy of old: ret is the
\* target after the call (diff.py 100-131)
CallApply ==
    /\ call.op = "apply_changes"
    /\ LET return(r) ==
               call' = [call EXCEPT !.op = "applied", !.ret = r.val,
                                    !.err = r.err]
       IN  return(apply_changes(call.old, call.changes))
    /\ UNCHANGED <<graph, registry, heap, run, tasks, result, futures,
                   join_registry, ready, cur>>

\* Diff.find_conflicts(changes) (diff.py 36-58)
CallFindConflicts ==
    /\ call.op = "find_conflicts"
    /\ call' = [call EXCEPT !.op = "found",
                            !.ret = find_conflicts(call.changes)]
    /\ UNCHANGED <<graph, registry, heap, run, tasks, result, futures,
                   join_registry, ready, cur>>

DiffNext ==
    \/ CallDiff
    \/ CallApply
    \/ CallFindConflicts

DiffSpec == DiffInit /\ [][DiffNext]_vars

(***************************************************************************)
(* Properties of the run.  The state contents are read declaratively: At   *)
(* is the value at a path of a mapping, Changed the set of paths at which  *)
(* a snapshot departs from the state it was copied from.                   *)
(***************************************************************************)
Missing == [t |-> "missing", v |-> "missing"]

RECURSIVE At(_, _)
At(d, p) ==
    IF p = <<>> THEN d
    ELSE IF d.t = "dict" /\ Head(p) \in DOMAIN d.v
        THEN At(d.v[Head(p)], Tail(p))
    ELSE Missing

RECURSIVE PathsOf(_)
\* every non-empty path into d
PathsOf(d) ==
    IF d.t # "dict" THEN {}
    ELSE UNION {{<<k>>} \cup {<<k>> \o q : q \in PathsOf(d.v[k])} :
                   k \in DOMAIN d.v}

\* the paths at which new differs from old, inside mappings both have
Changed(old, new) ==
    {p \in PathsOf(old) \cup PathsOf(new) :
        /\ At(old, p) # At(new, p)
        /\ ~(At(old, p).t = "dict" /\ At(new, p).t = "dict")
        /\ \A n \in 0..(Len(p) - 1) :
              /\ At(old, SubSeq(p, 1, n)).t = "dict"
              /\ At(new, SubSeq(p, 1, n)).t = "dict"}

\* the paths node k of task t's step changed in its snapshot
NodeChanged(t, k) ==
    Changed(VDict(heap[tasks[t].state]),
            VDict(heap[tasks[t].result_states[k]]))

\* two nodes of task t's step changed the same path
SamePathChanged(t) ==
    \E k, m \in DOMAIN tasks[t].result_states :
        k # m /\ NodeChanged(t, k) \cap NodeChanged(t, m) # {}

\* the references held to snapshots of running steps
SnapshotRefs(t) ==
    IF tasks[t].pc = "nodes"
    THEN {tasks[t].result_states[k] : k \in DOMAIN tasks[t].result_states}
    ELSE {}

\* C1: while the nodes of a step run, every snapshot is an object of its own
\* (no other snapshot, of this or of another branch, and no branch state,
\* initial state or caller state is the same object), and a node that has
\* not run yet still sees the branch's current state in its snapshot,
\* whatever its siblings and the nodes of other branches have written.
SnapshotIsolation ==
    \A t \in DOMAIN tasks :
        tasks[t].pc = "nodes" =>
            \A k \in DOMAIN tasks[t].result_states :
                LET ref == tasks[t].result_states[k]
                IN  /\ \A m \in DOMAIN tasks[t].result_states :
                           m # k => tasks[t].result_states[m] # ref
                    /\ \A u \in DOMAIN tasks :
                           /\ u # t => ref \notin SnapshotRefs(u)
                           /\ ref # tasks[u].state
                           /\ ref # tasks[u].initial_state
                    /\ ref # run.state
                    /\ tasks[t].status[k] = "pending"
                           => heap[ref] = heap[tasks[t].state]

\* a node has written to its snapshot while a sibling has not run yet
SnapshotIsolationWitness ==
    \E t \in DOMAIN tasks :
        /\ tasks[t].pc = "nodes"
        /\ \E k, m \in DOMAIN tasks[t].result_states :
              /\ tasks[t].status[k] = "done"
              /\ heap[tasks[t].result_states[k]] # heap[tasks[t].state]
              /\ tasks[t].status[m] = "pending"

\* the on_error hooks let error e through
Survives(e) == HookFold(graph.on_error, 1, e) # ""

\* C2: when two nodes of a step changed the same path, the merge raises
\* ChangeConflictException: on_merge_conflict is fired after on_merge_start,
\* on_merge_end is not, the branch state stays the object it was with its
\* contents, and the branch fails with that error, failing the run, unless
\* an on_error hook absorbs it.
ConflictRaises ==
    [][\A t \in DOMAIN tasks :
          /\ (tasks[t].pc = "merge" /\ tasks'[t].pc # "merge"
                  /\ SamePathChanged(t)) =>
                /\ tasks'[t].pc = "finally"
                /\ tasks'[t].exc = "ChangeConflictException"
                /\ tasks'[t].trace =
                       tasks[t].trace \o <<Event("on_merge_start", <<>>),
                                           Event("on_merge_conflict", <<>>)>>
                /\ tasks'[t].state = tasks[t].state
                /\ heap' = heap
          /\ (tasks[t].exc = "ChangeConflictException"
                  /\ tasks[t].pc \in {"finally", "on_error"}
                  /\ tasks'[t].pc # tasks[t].pc) =>
                /\ tasks'[t].state = tasks[t].state
                /\ heap'[tasks'[t].state] = heap[tasks[t].state]
                /\ tasks[t].pc = "finally" => tasks'[t].pc = "on_error"
                /\ (tasks[t].pc = "on_error" /\ Survives(tasks[t].exc)) =>
                       /\ tasks'[t].pc = "failed"
                       /\ run'.pc = "raised"
    ]_vars

\* a run has failed on the conflict of two nodes that wrote the same path
ConflictRaisesWitness ==
    \E t \in DOMAIN tasks :
        /\ tasks[t].pc = "failed"
        /\ tasks[t].exc = "ChangeConflictException"
        /\ Len(tasks[t].result_states) >= 2
        /\ SamePathChanged(t)
        /\ run.pc = "raised"

\* path q is a prefix of path p
Prefix(q, p) == Len(q) <= Len(p) /\ SubSeq(p, 1, Len(q)) = q

\* some node of task t's step changed a path on the way to p or below it
Touched(t, p) ==
    \E k \in DOMAIN tasks[t].result_states :
        \E q \in NodeChanged(t, k) : Prefix(q, p) \/ Prefix(p, q)

\* C3: after a step in which no node raised and no two nodes changed the
\* same path, the branch has a new state in which every path a node changed
\* holds that node's value and every path no node touched holds its old
\* value.
MergeAppliesEveryChange ==
    [][\A t \in DOMAIN tasks :
          (tasks[t].pc = "merge" /\ tasks'[t].pc # "merge"
               /\ ~SamePathChanged(t)) =>
              /\ tasks'[t].pc = "get_next"
              /\ \A k \in DOMAIN tasks[t].result_states :
                     \A p \in NodeChanged(t, k) :
                         At(VDict(heap'[tasks'[t].state]), p)
                             = At(VDict(heap[tasks[t].result_states[k]]), p)
              /\ \A p \in PathsOf(VDict(heap[tasks[t].state]))
                             \cup PathsOf(VDict(heap'[tasks'[t].state])) :
                     ~Touched(t, p) =>
                         At(VDict(heap'[tasks'[t].state]), p)
                             = At(VDict(heap[tasks[t].state]), p)
    ]_vars

\* the outcome of merging the snapshots refs into obj, taken in list order
MergeInOrder(obj, refs) ==
    GraphApply(obj, [k \in DOMAIN refs |->
                        recursive_diff(model_dump(obj), model_dump(heap[refs[k]]),
                                       <<>>)])

\* C4: the outcome of a step's merge is the function of the branch state
\* and the snapshots in schedule order, the same for every order in which
\* the nodes completed: the merged state on success, the error raised and
\* the untouched state otherwise.
MergeIgnoresCompletionOrder ==
    [][\A t \in DOMAIN tasks :
          (tasks[t].pc = "merge" /\ tasks'[t].pc # "merge") =>
              LET f == MergeInOrder(heap[tasks[t].state],
                                    tasks[t].result_states)
              IN  IF f.err = ""
                  THEN /\ tasks'[t].pc = "get_next"
                       /\ heap'[tasks'[t].state] = f.obj
                  ELSE /\ tasks'[t].pc = "finally"
                       /\ tasks'[t].exc = f.err
                       /\ tasks'[t].state = tasks[t].state
                       /\ heap' = heap
    ]_vars

\* a step was merged whose nodes completed in another order than scheduled,
\* each having changed the state
MergeIgnoresCompletionOrderWitness ==
    \E t \in DOMAIN tasks :
        /\ tasks[t].pc = "get_next"
        /\ Len(tasks[t].order) >= 2
        /\ tasks[t].order # [k \in DOMAIN tasks[t].order |-> k]
        /\ \A k \in DOMAIN tasks[t].changes : DOMAIN tasks[t].changes[k] # {}

\* the node list of the last on_step_start of task t
LastStepStart(t) ==
    LET at == {k \in DOMAIN tasks[t].trace :
                  tasks[t].trace[k].ev = "on_step_start"}
    IN  tasks[t].trace[CHOOSE k \in at : \A m \in at : m <= k].nodes

\* the error group of task t's step has been routed
Routed(t) == tasks[t].errors # <<>> /\ tasks[t].pc \notin {"nodes", "route"}

\* the error entries of task t's branch
ErrorEntries(t) ==
    {registry[tasks[t].bid].error_edge_index[k] :
        k \in DOMAIN registry[tasks[t].bid].error_edge_index}

\* error entry x is keyed for exception class e raised by node sn
Catches(x, e, sn) ==
    IF x.key.t = "exc" THEN IsSubclass(e, x.key.v)
    ELSE x.key.v[1].v = sn.node /\ IsSubclass(e, x.key.v[2].v)

\* the entries keyed for error e of task t that lie after its raising edge
Later(t, e) ==
    {x \in ErrorEntries(t) :
        Catches(x, e.exc, e.source_node)
            /\ x.index > e.source_node.reached_by.index}

\* the entries resolved for the k-th routed error of task t
Resolved(t, k) ==
    {tasks[t].routed[k].resolved[m] : m \in DOMAIN tasks[t].routed[k].resolved}

\* C5 as stated: an entry keyed for the error is resolved exactly when it
\* lies after the edge that reached the raising node.
HandlerFiresIffLater ==
    \A t \in DOMAIN tasks :
        \A k \in DOMAIN tasks[t].routed :
            \A x \in ErrorEntries(t) :
                Catches(x, tasks[t].routed[k].exc, tasks[t].routed[k].source_node)
                    => (x \in Resolved(t, k)
                            <=> x.index > tasks[t].routed[k].source_node.reached_by.index)

\* C5: an entry is resolved for an error only if it is keyed for it and
\* lies strictly after the edge that reached the raising node; the first
\* such entry is always resolved; the nodes a recovered step schedules are
\* all reached through such entries.
HandlerFiresOnlyLater ==
    \A t \in DOMAIN tasks :
        /\ \A k \in DOMAIN tasks[t].routed :
              /\ Resolved(t, k) \subseteq Later(t, tasks[t].routed[k])
              /\ \A x \in Later(t, tasks[t].routed[k]) :
                     (\A y \in Later(t, tasks[t].routed[k]) : x.index <= y.index)
                         => x \in Resolved(t, k)
        /\ (Routed(t) /\ tasks[t].pc = "finally" /\ tasks[t].exc = "") =>
              \A n \in DOMAIN tasks[t].next_nodes :
                  \E k \in DOMAIN tasks[t].routed :
                      tasks[t].next_nodes[n].reached_by \in Resolved(t, k)

\* an error was routed past an entry keyed for it that lies before the
\* raising edge, and to one that lies after it
HandlerFiresOnlyLaterWitness ==
    \E t \in DOMAIN tasks :
        \E k \in DOMAIN tasks[t].routed :
            /\ Resolved(t, k) # {}
            /\ \E x \in ErrorEntries(t) :
                  /\ Catches(x, tasks[t].routed[k].exc,
                             tasks[t].routed[k].source_node)
                  /\ x.index < tasks[t].routed[k].source_node.reached_by.index
                  /\ x \notin Resolved(t, k)

\* the targets of the entries resolved for the routed errors, in order
RecoveryTargets(t) ==
    Flatten([k \in DOMAIN tasks[t].routed |->
                [m \in DOMAIN tasks[t].routed[k].resolved |->
                    [node |-> tasks[t].routed[k].resolved[m].next.v,
                     reached_by |-> tasks[t].routed[k].resolved[m]]]])

\* C6 as stated: an error that is an instance of the type keying a later
\* error edge does not fail the branch.
TypedErrorEdgeAlwaysRecovers ==
    \A t \in DOMAIN tasks :
        (/\ Routed(t)
         /\ tasks[t].pc = "finally"
         /\ \A k \in DOMAIN tasks[t].errors :
               \E x \in Later(t, tasks[t].errors[k]) : x.key.t = "exc")
            => tasks[t].exc = ""

\* C6: when every error of a step is an instance of the key of a later
\* error edge with propagate=false, and the later error edges keyed for it
\* name their targets (none is a router), the branch does not fail at that
\* step and the targets of the resolved entries become its next step; the
\* run of the graph of test_error_edge_by_exception_type never fails and
\* returns name = "recovered"; a type-keyed entry is never resolved for an
\* error that is not an instance of its type.
TypedErrorEdgeRecovers ==
    /\ \A t \in DOMAIN tasks :
          /\ (/\ Routed(t)
              /\ tasks[t].pc = "finally"
              /\ \A k \in DOMAIN tasks[t].errors :
                    /\ \E x \in Later(t, tasks[t].errors[k]) : ~x.config.v
                    /\ \A x \in Later(t, tasks[t].errors[k]) :
                           is_resolved_next(x.next))
                 => /\ tasks[t].exc = ""
                    /\ tasks[t].next_nodes = RecoveryTargets(t)
                    /\ tasks[t].next_nodes # <<>>
          /\ \A k \in DOMAIN tasks[t].routed :
                 \A x \in Resolved(t, k) :
                     x.key.t = "exc" => IsSubclass(tasks[t].routed[k].exc, x.key.v)
    /\ graph = S5Graph =>
          /\ run.pc # "raised"
          /\ run.pc = "returned" => heap[run.final]["name"] = VStr("recovered")

\* the run of test_error_edge_by_exception_type has returned after the
\* recovery node ran as the second step
TypedErrorEdgeRecoversWitness ==
    /\ graph = S5Graph
    /\ run.pc = "returned"
    /\ heap[run.final]["name"] = VStr("recovered")
    /\ \E t \in DOMAIN tasks :
          /\ tasks[t].steps = 2
          /\ LastStepStart(t) = <<"recover">>

\* some branch container of g holds a two-element edge whose source is a
\* (node, exception type) pair
HasScopedPair(g) ==
    \E c \in DOMAIN g.containers :
        \E k \in DOMAIN g.containers[c].edges :
            LET edge == g.containers[c].edges[k]
            IN  /\ Len(edge) = 2
                /\ edge[1].t = "tuple"
                /\ is_single_error_source(edge[1])

\* C7: a graph with a two-element scoped error edge is constructed, its run
\* does not fail, and it returns with the changes of the recovery target.
ScopedPairRecovers ==
    HasScopedPair(graph) =>
        /\ run.pc \notin {"construct_failed", "raised"}
        /\ run.pc = "returned" => heap[run.final]["name"] = VStr("recovered")

\* error e of task t has no later entry keyed for it
NoLaterEntry(t, e) == Later(t, e) = {}

\* error e of task t has no later entry keyed for it that consumes it
NotConsumed(t, e) == \A x \in Later(t, e) : x.config.v

\* C8: when an error of a step's group has no later entry keyed for it,
\* the step raises a group holding exactly the errors no entry consumed, in
\* their order; the branch keeps the node list of the failed step and never
\* starts another step.
UnhandledGroupRaised ==
    \A t \in DOMAIN tasks :
        (Routed(t) /\ \E k \in DOMAIN tasks[t].errors :
                          NoLaterEntry(t, tasks[t].errors[k])) =>
            /\ tasks[t].unhandled =
                   SelectSeq(tasks[t].errors, LAMBDA e : NotConsumed(t, e))
            /\ tasks[t].unhandled # <<>>
            /\ tasks[t].pc \in {"finally", "on_error", "set_result", "done",
                                "failed", "cancelled"}
            /\ tasks[t].pc \in {"finally", "on_error"}
                   => tasks[t].exc = "ExceptionGroup"
            /\ NodeList(tasks[t].next_nodes) = LastStepStart(t)
            /\ tasks[t].pc = "failed" => run.pc = "raised"

\* a step with two errors, one consumed by an entry and one without any
\* later entry, has failed the run
UnhandledGroupRaisedWitness ==
    \E t \in DOMAIN tasks :
        /\ tasks[t].pc = "failed"
        /\ Len(tasks[t].errors) = 2
        /\ Len(tasks[t].unhandled) = 1
        /\ \E k \in DOMAIN tasks[t].routed :
              tasks[t].routed[k].consumed /\ tasks[t].routed[k].resolved # <<>>
        /\ \E k \in DOMAIN tasks[t].errors : NoLaterEntry(t, tasks[t].errors[k])

\* C9: the entries resolved for an error are in strictly ascending
\* position and are exactly the later entries keyed for it that no later
\* entry keyed for it with propagate=false precedes.
PropagateWalk ==
    \A t \in DOMAIN tasks :
        \A k \in DOMAIN tasks[t].routed :
            LET r == tasks[t].routed[k]
            IN  /\ \A m, n \in DOMAIN r.resolved :
                       m < n => r.resolved[m].index < r.resolved[n].index
                /\ Resolved(t, k) =
                       {x \in Later(t, r) :
                           \A y \in Later(t, r) :
                               y.index < x.index => y.config.v}

\* an error was passed on by a propagating entry to a consuming one, and
\* an entry keyed for it after the consuming one was left out
PropagateWalkWitness ==
    \E t \in DOMAIN tasks :
        \E k \in DOMAIN tasks[t].routed :
            LET r == tasks[t].routed[k]
            IN  /\ Len(r.resolved) = 2
                /\ r.resolved[1].config.v
                /\ ~r.resolved[2].config.v
                /\ \E x \in Later(t, r) :
                      x.index > r.resolved[2].index /\ x \notin Resolved(t, k)

\* the instant edges (A, B) of task t's branch, as pairs of node names
InstantEdges(t) ==
    {<<registry[tasks[t].bid].edge_index[k].key.v,
       registry[tasks[t].bid].edge_index[k].next.v>> :
        k \in {m \in DOMAIN registry[tasks[t].bid].edge_index :
                  LET x == registry[tasks[t].bid].edge_index[m]
                  IN  x.config.v /\ x.key.t = "node" /\ x.next.t = "node"}}

\* C10: every on_step_start that lists the source of an instant edge lists
\* its target too.
InstantTargetInSameStep ==
    \A t \in DOMAIN tasks :
        \A k \in DOMAIN tasks[t].trace :
            tasks[t].trace[k].ev = "on_step_start" =>
                \A ab \in InstantEdges(t) :
                    (\E n \in DOMAIN tasks[t].trace[k].nodes :
                         tasks[t].trace[k].nodes[n] = ab[1])
                        => \E n \in DOMAIN tasks[t].trace[k].nodes :
                               tasks[t].trace[k].nodes[n] = ab[2]

\* the nodes under which the step of task t joins sub-branches
StepKeys(t) ==
    {VNode(tasks[t].next_nodes[k].node) : k \in DOMAIN tasks[t].next_nodes}

\* C11: when the join phase of a step runs to its end, every sub-branch
\* that was registered under one of the step's next nodes has a result, is
\* no longer registered, and its changeset is among the changes applied
\* before the snapshots are taken.
JoinConsumesAll ==
    [][\A t \in DOMAIN tasks :
          (tasks[t].pc = "join" /\ tasks'[t].pc = "fanout") =>
              \A key \in StepKeys(t) :
                  /\ join_registry'[key] = <<>>
                  /\ \A j \in DOMAIN join_registry[key] :
                        /\ result[join_registry[key][j]] # 0
                        /\ \E c \in DOMAIN tasks'[t].changes :
                              tasks'[t].changes[c] =
                                  futures[result[join_registry[key][j]]].val]_vars

\* the node under which task t awaits a sub-branch
JoinKey(t) == VNode(tasks[t].next_nodes[tasks[t].jn].node)

\* C12: a branch that resumes from awaiting a sub-branch finds it still
\* registered, so that its removal succeeds: no other branch has consumed
\* it in the meantime.
SubBranchConsumedOnce ==
    [][\A t \in DOMAIN tasks :
          (tasks[t].pc = "join_wait" /\ tasks'[t] # tasks[t]
                /\ tasks'[t].pc # "cancelled") =>
              \E j \in DOMAIN join_registry[JoinKey(t)] :
                  join_registry[JoinKey(t)][j] = tasks[t].jbid]_vars

\* the state the race graph returns when its first branch reaches c before
\* its second branch does
RaceFinal ==
    [FieldDefault EXCEPT !["value"] = VInt(1), !["name"] = VStr("recovered")]

\* C13: the final state a run returns does not depend on the interleaving
\* of its branches: every run of the race graph that returns, returns the
\* state that the run in which the first branch reaches c first returns.
FinalStateIgnoresInterleaving ==
    (run.pc = "returned" /\ graph = RaceGraph) => heap[run.final] = RaceFinal

\* a run of the race graph returns RaceFinal
RaceFinalReturned ==
    run.pc = "returned" /\ graph = RaceGraph /\ heap[run.final] = RaceFinal

\* the last hook event of task t is on_error: its error was absorbed
Absorbed(t) ==
    /\ tasks[t].trace # <<>>
    /\ tasks[t].trace[Len(tasks[t].trace)].ev = "on_error"

\* C14: a branch run that reaches the end of run_branch (its loop ended
\* with no next nodes, or a hook absorbed its error) completes the result
\* future of its branch, which is not completed yet, with the diff from its
\* snapshot at branch start to its final state, and ends.
ResultCompletedOnce ==
    [][\A t \in DOMAIN tasks :
          (tasks[t].pc = "set_result" /\ tasks'[t].pc \notin {"set_result", "cancelled"}) =>
              /\ tasks[t].next_nodes = <<>> \/ Absorbed(t)
              /\ ~futures[result[tasks[t].bid]].done
              /\ tasks'[t].pc = "done"
              /\ futures'[result[tasks[t].bid]].done
              /\ futures'[result[tasks[t].bid]].val =
                     recursive_diff(model_dump(heap[tasks[t].initial_state]),
                                    model_dump(heap[tasks[t].state]), <<>>)]_vars

RECURSIVE AppliedInOrder(_, _, _)
\* mapping d after the changesets cs[k], cs[k+1], ... are applied to it one
\* after the other
AppliedInOrder(d, cs, k) ==
    IF k > Len(cs) THEN d
    ELSE LET next(r) == AppliedInOrder(r.val, cs, k + 1)
         IN  next(apply_changes(d, cs[k]))

\* the changesets of the branches registered to join at END, in
\* registration order
EndChangesets ==
    [k \in DOMAIN join_registry[VEND] |->
        futures[result[join_registry[VEND][k]]].val]

\* C15: the state a run returns is the input state's mapping with the
\* changesets of the branches registered at END applied in registration
\* order (revalidated); when one branch is registered at END, it is that
\* branch's final state.
RunReturnsEndJoin ==
    run.pc = "returned" =>
        /\ heap[run.final] =
               model_validate(AppliedInOrder(model_dump(heap[run.state]),
                                             EndChangesets, 1))
        /\ \A t \in DOMAIN tasks :
               (Len(join_registry[VEND]) = 1
                    /\ tasks[t].bid = join_registry[VEND][1])
                   => heap[run.final] = heap[tasks[t].state]

\* a run returned after two branches joined at END that wrote different
\* values to the same path
RunReturnsEndJoinWitness ==
    /\ run.pc = "returned"
    /\ Len(join_registry[VEND]) = 2
    /\ \E p \in DOMAIN EndChangesets[1] \cap DOMAIN EndChangesets[2] :
           EndChangesets[1][p].new # EndChangesets[2][p].new

\* the positions of the on_graph_end calls in the run's hook trace
GraphEnds == {k \in DOMAIN run.trace : run.trace[k].ev = "on_graph_end"}

\* Graph.__call__ has gone past its task group: it returned, or the join
\* at END raised
PastTaskGroup ==
    run.pc = "returned" \/ (run.pc = "raised" /\ run.err # "ExceptionGroup")

\* C16: on_graph_start is the first hook call and precedes every branch
\* task; the run is past its task group only when every branch task,
\* sub-branches included, has ended; on_graph_end is called at most once,
\* only in a run that returns, as its last hook call, after every branch
\* task has ended and with the state the run returns; a run that returns
\* has called it.
GraphHooksBracketRun ==
    /\ tasks # <<>> =>
           /\ run.trace # <<>>
           /\ run.trace[1] = GraphEvent("on_graph_start", run.state)
    /\ PastTaskGroup => \A t \in DOMAIN tasks : tasks[t].pc = "done"
    /\ Cardinality(GraphEnds) <= 1
    /\ GraphEnds # {} =>
           /\ run.pc = "returned"
           /\ GraphEnds = {Len(run.trace)}
           /\ run.trace[Len(run.trace)].state = run.final
           /\ \A t \in DOMAIN tasks : tasks[t].pc = "done"
    /\ run.pc = "returned" => GraphEnds # {}

\* a run that spawned a sub-branch has returned
GraphHooksBracketRunWitness ==
    /\ run.pc = "returned"
    /\ GraphEnds # {}
    /\ \E t \in DOMAIN tasks : registry[tasks[t].bid].start # VSTART

\* the call applied the return value of recursive_diff(old, new), old and
\* new both mappings, to a deep copy of old
RoundTripDone ==
    call.op = "applied" /\ call.old.t = "dict" /\ call.new.t = "dict"

\* C17: applying diff(a, b) to a deep copy of mapping a raises nothing and
\* leaves a mapping equal to mapping b.
DiffRoundTrip ==
    RoundTripDone => call.err = "" /\ call.ret = call.new

\* a round trip whose diff removes a key, adds a key and replaces a nested
\* mapping by a scalar or a scalar by a mapping
DiffRoundTripWitness ==
    /\ RoundTripDone
    /\ \E p, q, r \in DOMAIN call.changes :
           /\ call.changes[p].type = "removed"
           /\ call.changes[q].type = "added"
           /\ call.changes[r].type = "updated"
           /\ (call.changes[r].old.t = "dict") # (call.changes[r].new.t = "dict")


\* the positions of the changesets of L that contain path p
Holders(L, p) == {i \in DOMAIN L : p \in DOMAIN L[i]}

\* C18: find_conflicts(L) contains path p exactly when at least two
\* elements of L contain p; the list reported for p holds the change at p of
\* every changeset containing it, in input order; the result is empty for a
\* list of at most one changeset.
ConflictsComplete ==
    call.op = "found" =>
        LET L == call.changes
            ret == call.ret
            paths == UNION {DOMAIN L[i] : i \in DOMAIN L}
        IN  /\ DOMAIN ret = {p \in paths : Cardinality(Holders(L, p)) >= 2}
            /\ \A p \in DOMAIN ret :
                   /\ Len(ret[p]) = Cardinality(Holders(L, p))
                   /\ \A i \in Holders(L, p) :
                          ret[p][Cardinality({j \in Holders(L, p) : j <= i})]
                              = L[i][p]
            /\ Len(L) <= 1 => DOMAIN ret = {}

\* find_conflicts returned for three changesets that all contain one path
\* with differing changes, while another path lies in exactly one of them
ConflictsCompleteWitness ==
    /\ call.op = "found"
    /\ Len(call.changes) = 3
    /\ \E p \in DOMAIN call.ret :
           /\ Holders(call.changes, p) = {1, 2, 3}
           /\ call.changes[1][p] # call.changes[3][p]
    /\ \E i \in DOMAIN call.changes : \E q \in DOMAIN call.changes[i] :
           Holders(call.changes, q) = {i} /\ q \notin DOMAIN call.ret


\* recursive_diff(old, new) has returned: its return value is call.changes
DiffDone ==
    call.op \in {"apply_changes", "applied"} /\ call.new # VNone

\* C19: diff(old, new) of two mappings holds exactly the paths below which
\* old and new are both mappings and at which the two values differ and are
\* not both mappings: REMOVED with the old value where new has no value,
\* ADDED with the new value where old has none, UPDATED with both values
\* otherwise; for other inputs it holds the empty path when they are
\* unequal; diff(x, x) is empty.
DiffReportsTopmost ==
    DiffDone =>
        LET ch == call.changes
            old == call.old
            new == call.new
        IN  /\ DOMAIN ch =
                   IF old.t = "dict" /\ new.t = "dict" THEN Changed(old, new)
                   ELSE IF old # new THEN {<<>>}
                   ELSE {}
            /\ \A p \in DOMAIN ch :
                   ch[p] = IF At(new, p) = Missing
                               THEN Change("removed", At(old, p), VNone)
                           ELSE IF At(old, p) = Missing
                               THEN Change("added", VNone, At(new, p))
                           ELSE Change("updated", At(old, p), At(new, p))
            /\ old = new => DOMAIN ch = {}

\* a diff that removes a whole nested mapping with one change and also
\* holds a change two keys deep and an added key
DiffReportsTopmostWitness ==
    /\ DiffDone
    /\ \E p, q, r \in DOMAIN call.changes :
           /\ call.changes[p].type = "removed"
           /\ call.changes[p].old.t = "dict"
           /\ DOMAIN call.changes[p].old.v # {}
           /\ Len(q) = 2
           /\ call.changes[r].type = "added"

\* C19 as stated: every key path present in old and missing in new has a
\* REMOVED change, every key path present in new and missing in old an ADDED
\* change, every path with unequal values that are not both mappings an
\* UPDATED change.
DiffReportsEveryPath ==
    DiffDone =>
        \A p \in PathsOf(call.old) \cup PathsOf(call.new) \cup {<<>>} :
            LET o == At(call.old, p)
                n == At(call.new, p)
                type == IF p \in DOMAIN call.changes
                            THEN call.changes[p].type ELSE "none"
            IN  /\ (o # Missing /\ n = Missing) => type = "removed"
                /\ (o = Missing /\ n # Missing) => type = "added"
                /\ (o # Missing /\ n # Missing /\ o # n
                        /\ ~(o.t = "dict" /\ n.t = "dict"))
                       => type = "updated"


\* apply_changes(old, {p: REMOVED}) has returned or raised
RemovalApplied ==
    call.op = "applied" /\ call.new = VNone

\* the path of the REMOVED change of the call
RemovedPath == CHOOSE p \in DOMAIN call.changes : TRUE

GraphEdges ==
    UNION {{graph.containers[c].edges[i] : i \in DOMAIN graph.containers[c].edges} :
              c \in DOMAIN graph.containers}

\* the positions of edge in the edge list of container c
EdgeAt(c, edge) == {i \in DOMAIN c.edges : c.edges[i] = edge}

\* edge is filed under key in the node index ("node") or the error index
\* ("error") of some Branch of the registry, with the position of the edge
\* in its container as index
Filed(kind, key, edge) ==
    \E b \in DOMAIN registry :
        LET index == IF kind = "node" THEN registry[b].edge_index
                     ELSE registry[b].error_edge_index
        IN  \E k \in DOMAIN index :
                /\ index[k].key = key
                /\ index[k].next = edge[2]
                /\ \E c \in DOMAIN graph.containers :
                       (index[k].index + 1) \in EdgeAt(graph.containers[c], edge)

\* C21: an edge ([n1, n2], target) is accepted at construction and its
\* entry, with the position of the edge as index, is registered under
\* every element of the list.
ListSourceAccepted ==
    \A edge \in GraphEdges :
        (Len(edge) = 2 /\ edge[1].t = "list"
            /\ is_single_source_sequence(edge[1]) /\ is_resolved_next(edge[2]))
        => /\ run.pc # "construct_failed"
           /\ \A k \in DOMAIN edge[1].v : Filed("node", edge[1].v[k], edge)


\* the entries of index that come from the edge at 0-based position i
EntriesOfEdge(index, i) == SelectSeq(index, LAMBDA e : e.index = i)

ConfigMismatch(edge) ==
    /\ Len(edge) = 3
    /\ \/ is_source(edge[1]) /\ edge[3].t = "ErrorConfig"
       \/ is_error_source(edge[1]) /\ edge[3].t = "Config"

\* edge has no config, a single node source or an error source, and a next
ConfigOmitted(edge) ==
    /\ Len(edge) = 2
    /\ is_single_source(edge[1]) \/ is_error_source(edge[1])
    /\ is_next(edge[2])

\* C23: construction fails, and no branch task is ever created, when an
\* edge has an explicit config of the wrong kind; construction succeeds when
\* every edge leaves the config out.
ConfigKindChecked ==
    /\ (\E edge \in GraphEdges : ConfigMismatch(edge))
           => run.pc = "construct_failed" /\ tasks = <<>>
    /\ (\A edge \in GraphEdges : ConfigOmitted(edge))
           => run.pc # "construct_failed"


\* source is (list of nodes, exception type)
IsNodeListErrorSource(source) ==
    /\ source.t = "tuple"
    /\ Len(source.v) = 2
    /\ source.v[1].t = "list"
    /\ \A k \in DOMAIN source.v[1].v : source.v[1].v[k].t = "node"
    /\ source.v[2].t = "exc"

\* C24: an error edge whose source is (list of nodes, exception type) is
\* accepted at construction and its handler is registered under (node,
\* exception type) for every node of the list.
NodeListErrorSourceAccepted ==
    \A edge \in GraphEdges :
        IsNodeListErrorSource(edge[1])
        => /\ run.pc # "construct_failed"
           /\ \A k \in DOMAIN edge[1].v[1].v :
                  Filed("error", VTuple(<<edge[1].v[1].v[k], edge[1].v[2]>>),
                        edge)


\* the nodes of a resolved next, END and None left out
NodesOf(next) ==
    IF next.t = "node" THEN <<next.v>>
    ELSE IF IsSequence(next)
        THEN LET nodes == SelectSeq(next.v, LAMBDA x : x.t = "node")
             IN  [k \in DOMAIN nodes |-> nodes[k].v]
    ELSE <<>>

\* task t resolves, after the step of one node, the single entry of that
\* node, whose next is a callable
ResolvesRouter(t) ==
    /\ tasks[t].pc \in {"get_next", "router_wait"}
    /\ Len(tasks[t].next_nodes) = 1
    /\ LET entries == Lookup(registry[tasks[t].bid].edge_index,
                             VNode(tasks[t].next_nodes[1].node))
       IN  Len(entries) = 1 /\ entries[1].next.t = "callable"

\* the callable task t resolves
RouterOf(t) ==
    Lookup(registry[tasks[t].bid].edge_index,
           VNode(tasks[t].next_nodes[1].node))[1].next.v

\* C25: a callable next is called with the merged state of the step; the
\* nodes it returns, END and None dropped, are the next nodes of the branch
\* and the resolution raises nothing.
RouterResultScheduled ==
    [][\A t \in DOMAIN tasks :
          (ResolvesRouter(t) /\ tasks'[t].pc = "finally")
          => /\ tasks'[t].exc = ""
             /\ NodeList(tasks'[t].next_nodes)
                    = NodesOf(Router(RouterOf(t), heap[tasks[t].state]).next)]_vars


\* the branch tasks suspended inside a router invocation
InRouter == {t \in DOMAIN tasks : tasks[t].pc = "router_wait"}

\* C26: no two router invocations of a run are in progress at the same
\* time, the routers of concurrently running branches included.
RoutersSequential == Cardinality(InRouter) <= 1


\* C27: an error that escapes the step loop of a branch is offered to the
\* on_error hooks in registration order, each hook receiving what the
\* previous one returned; after a hook returned None no later hook is
\* called, the branch does not raise and goes on to complete its result
\* with the state it has; otherwise every hook is called and the branch
\* raises what the last hook returned (the error itself without hooks).
OnErrorHooksInOrder ==
    [][\A t \in DOMAIN tasks :
          (tasks[t].pc = "on_error" /\ tasks'[t].pc # "on_error")
          => LET calls == tasks'[t].hooked
                 hooks == graph.on_error
                 n == Len(calls)
             IN  /\ n <= Len(hooks)
                 /\ \A k \in DOMAIN calls :
                        /\ calls[k].hook = k
                        /\ calls[k].error = IF k = 1 THEN tasks[t].exc
                                            ELSE calls[k - 1].ret
                        /\ calls[k].ret = HookReturn(hooks[k], calls[k].error)
                        /\ k < n => calls[k].ret # ""
                 /\ IF n > 0 /\ calls[n].ret = ""
                    THEN /\ tasks'[t].pc = "set_result"
                         /\ tasks'[t].state = tasks[t].state
                         /\ heap' = heap
                         /\ run' = run
                    ELSE /\ n = Len(hooks)
                         /\ tasks'[t].pc = "failed"
                         /\ tasks'[t].exc = IF n = 0 THEN tasks[t].exc
                                            ELSE calls[n].ret
                         /\ run'.pc = "raised"]_vars

\* a branch whose error the first hook replaced and the second absorbed has
\* completed its result with the changes made before the error
OnErrorHooksInOrderWitness ==
    \E t \in DOMAIN tasks :
        /\ tasks[t].pc = "done"
        /\ Len(tasks[t].hooked) = 2
        /\ tasks[t].hooked[1].ret \notin {"", tasks[t].hooked[1].error}
        /\ tasks[t].hooked[2].ret = ""
        /\ futures[result[tasks[t].bid]].done
        /\ DOMAIN futures[result[tasks[t].bid]].val # {}


\* the errors raised by routers and by hooks
RouterOrHookErrors == {"RouterError", "HookRaised"}

\* C28: an error raised by a router or by a hook is never routed to an
\* error edge; it is offered to the on_error hooks, and the run raises
\* because of it only when they did not absorb it.
RouterHookErrorsSurface ==
    /\ \A t \in DOMAIN tasks :
           /\ \A k \in DOMAIN tasks[t].routed :
                  tasks[t].routed[k].exc \notin RouterOrHookErrors
           /\ (tasks[t].pc = "failed" /\ tasks[t].hooked # <<>>
                   /\ tasks[t].hooked[1].error \in RouterOrHookErrors)
                  => Survives(tasks[t].hooked[1].error)
    /\ (run.pc = "raised" /\ run.err \in RouterOrHookErrors)
           => /\ graph.on_error # <<>>
                     => \E t \in DOMAIN tasks :
                            /\ tasks[t].hooked # <<>>
                            /\ tasks[t].hooked[1].error = run.err
              /\ Survives(run.err)


\* the branch tasks that ended with a surviving error
Failed == {t \in DOMAIN tasks : tasks[t].pc = "failed"}

\* C29: once a branch has ended with a surviving error, run has raised:
\* every other branch task has either completed before or is cancelled,
\* nothing is scheduled any more, no final state exists and on_graph_end
\* was not fired.
SurvivingErrorRaises ==
    Failed # {} =>
        /\ run.pc = "raised"
        /\ Cardinality(Failed) = 1
        /\ \A k \in DOMAIN tasks \ Failed :
               /\ tasks[k].pc \in {"done", "cancelled"}
               /\ tasks[k].pc = "done" => futures[result[tasks[k].bid]].done
        /\ ready = <<>> /\ cur = 0
        /\ run.final = 0
        /\ \A i \in DOMAIN run.trace : run.trace[i].ev # "on_graph_end"

\* the first branch failed with the error of its node while the second
\* branch was in a step, and the second branch is cancelled
SurvivingErrorRaisesWitness ==
    /\ graph = FailingBranchGraph
    /\ Failed = {1}
    /\ tasks[2].pc = "cancelled"
    /\ tasks[2].trace # <<>>


\* the calls of nodes, routers and hooks made so far with a shared argument:
\* those of Graph.__call__ and those of every branch task
SharedCalls ==
    {run.seen[k] : k \in DOMAIN run.seen}
        \cup UNION {{tasks[t].seen[k] : k \in DOMAIN tasks[t].seen} :
                        t \in DOMAIN tasks}

\* C30: the shared object is passed by reference everywhere: every branch
\* task holds the object given to the run, every node, router and hook
\* called with a shared argument received that very object, never a copy
\* or a snapshot of it, and a run that returns returns that object.
SharedByReference ==
    /\ \A t \in DOMAIN tasks : tasks[t].shared = GivenShared
    /\ \A c \in SharedCalls : c.shared = GivenShared
    /\ run.pc = "returned" => run.returned = GivenShared

\* a run has returned in which a branch spawned by a node ran, and nodes,
\* routers and hooks have been called
SharedByReferenceWitness ==
    /\ run.pc = "returned"
    /\ Len(tasks) >= 2
    /\ \E t \in DOMAIN tasks :
           /\ t >= 2
           /\ \E k \in DOMAIN tasks[t].seen : tasks[t].seen[k].kind = "node"
    /\ {c.kind : c \in SharedCalls} = {"node", "router", "hook"}
    /\ \E c \in SharedCalls : c.callee = "on_graph_end"

\* C31: run never mutates the caller's state: in every state of a run, be
\* it under way, returned or raised, the state object passed to
\* Graph.__call__ holds its pre-run mapping, and the final state returned is
\* another object.
CallerStateUntouched ==
    /\ heap[run.state] = FieldDefault
    /\ run.pc = "returned" => /\ run.final # run.state
                              /\ run.final \in DOMAIN heap

\* a run has returned a final state whose mapping differs from the caller's
CallerStateUntouchedWitness ==
    /\ run.pc = "returned"
    /\ heap[run.final] # heap[run.state]
    /\ \E t \in DOMAIN tasks : tasks[t].steps >= 2

\* the positions of task t's hook trace that hold event ev
EventsAt(t, ev) == {k \in DOMAIN tasks[t].trace : tasks[t].trace[k].ev = ev}

\* the on_step_start that opens the step of which position k of task t's
\* hook trace is part: the last one before k (0 when there is none)
StepStartBefore(t, k) ==
    LET at == {m \in EventsAt(t, "on_step_start") : m < k}
    IN  IF at = {} THEN 0 ELSE CHOOSE m \in at : \A n \in at : n <= m

\* the program points of run_branch inside a step, after its on_step_start
InStep ==
    {"spawn", "join", "join_wait", "fanout", "nodes", "merge", "route",
     "get_next", "router_wait", "finally"}

\* on_step_start is fired before any node of the step runs, and on_step_end
\* is fired once per step, after the nodes have finished and the merge or
\* the error routing is over
StepHooksOncePerStep ==
    \A t \in DOMAIN tasks :
        /\ tasks[t].pc \in InStep
              => /\ StepStartBefore(t, Len(tasks[t].trace) + 1) # 0
                 /\ \A k \in EventsAt(t, "on_step_end") :
                        k < StepStartBefore(t, Len(tasks[t].trace) + 1)
        /\ \A k \in EventsAt(t, "on_step_end") :
              /\ StepStartBefore(t, k) # 0
              /\ \A m \in EventsAt(t, "on_step_end") :
                     m < k => m < StepStartBefore(t, k)
        /\ \A k \in EventsAt(t, "on_step_start") :
              StepStartBefore(t, k) # 0
                  => \E m \in EventsAt(t, "on_step_end") :
                         StepStartBefore(t, k) < m /\ m < k

\* C32: on_step_start is fired before any node of the step runs, on_step_end
\* is fired exactly once after the step's nodes have finished and the state
\* was merged or the error routed, and on_step_end receives the node list
\* that was given to the on_step_start of that step.
StepEndGetsStepNodes ==
    /\ StepHooksOncePerStep
    /\ \A t \in DOMAIN tasks :
          \A k \in EventsAt(t, "on_step_end") :
              StepStartBefore(t, k) # 0
                  => tasks[t].trace[k].nodes
                         = tasks[t].trace[StepStartBefore(t, k)].nodes

\* the edges of graph g whose source is START
StartEdges(g) ==
    UNION {{edge \in {g.containers[c].edges[k] :
                         k \in DOMAIN g.containers[c].edges} :
               edge[1] = VSTART} :
           c \in DOMAIN g.containers}

\* graph g has no branch container, or its branches start at START and its
\* only edge from START targets None or END
NoStartTarget(g) ==
    \/ g.containers = <<>>
    \/ /\ \A c \in DOMAIN g.containers :
              g.containers[c].edges # <<>> /\ g.containers[c].edges[1][1] = VSTART
       /\ Cardinality(StartEdges(g)) = 1
       /\ \A edge \in StartEdges(g) : Len(edge) = 2 /\ edge[2] \in {VNone, VEND}

\* C33: a graph with no branch container, or whose only edge from START
\* targets None or END, is constructed, executes no node, starts no step,
\* and its run does not fail and returns a state equal to the input state.
EmptyGraphReturnsInput ==
    (NoStartTarget(graph) /\ graph.raises = "") =>
        /\ run.pc \notin {"construct_failed", "raised"}
        /\ \A t \in DOMAIN tasks :
              /\ tasks[t].order = <<>>
              /\ tasks[t].steps = 0
              /\ tasks[t].trace = <<>>
              /\ tasks[t].pc \notin {"failed", "cancelled"}
        /\ run.pc = "returned" => heap[run.final] = heap[run.state]

\* the run of a graph with a branch container whose only edge from START
\* targets None or END has returned, its one branch done
EmptyGraphReturnsInputWitness ==
    /\ NoStartTarget(graph)
    /\ graph.containers # <<>>
    /\ run.pc = "returned"
    /\ Len(tasks) = 1
    /\ tasks[1].pc = "done"

\* the graph of test_chain_of_two_nodes
ChainOfTwoGraph ==
    G(<<Main(<< <<VSTART, N("inc")>>, <<N("inc"), N("inc2")>>,
                <<N("inc2"), VNone>> >>)>>)

\* the node list of the step before the one task t is in ("none" when task
\* t is in its first step)
PreviousStepNodes(t) ==
    LET this == StepStartBefore(t, Len(tasks[t].trace) + 1)
        before == StepStartBefore(t, this)
    IN  IF before = 0 THEN {"none"}
        ELSE {tasks[t].trace[before].nodes[k] :
                 k \in DOMAIN tasks[t].trace[before].nodes}

\* C34: the steps of a branch are barriers.  When the branch goes on after
\* the fan-out, every node of the step has finished; while the nodes of a
\* step run, every earlier step of the branch has had its on_step_end, the
\* source of the non-instant node edge that reached a node ran in the step
\* before, and a node that has not run yet holds a snapshot equal to the
\* branch state, which carries the merged changes of the step before; the
\* run of test_chain_of_two_nodes returns value = 2.
StepsAreBarriers ==
    /\ \A t \in DOMAIN tasks :
          /\ tasks[t].pc \in {"merge", "route", "get_next", "router_wait",
                              "finally"}
                => AllFinished(tasks[t].status)
          /\ tasks[t].pc = "nodes" =>
                /\ Cardinality(EventsAt(t, "on_step_end")) = tasks[t].steps
                /\ Cardinality(EventsAt(t, "on_step_start")) = tasks[t].steps + 1
                /\ \A i \in DOMAIN tasks[t].next_nodes :
                      LET by == tasks[t].next_nodes[i].reached_by
                      IN  /\ (by.key.t = "node" /\ ~by.config.v
                                  /\ tasks[t].steps >= 1)
                                => by.key.v \in PreviousStepNodes(t)
                          /\ tasks[t].status[i] = "pending"
                                => heap[tasks[t].result_states[i]]
                                       = heap[tasks[t].state]
    /\ (graph = ChainOfTwoGraph /\ run.pc = "returned")
          => heap[run.final]["value"] = VInt(2)

\* the second node of test_chain_of_two_nodes is about to run in the second
\* step, on a snapshot that holds the change of the first
StepsAreBarriersWitness ==
    /\ graph = ChainOfTwoGraph
    /\ \E t \in DOMAIN tasks :
          /\ tasks[t].pc = "nodes"
          /\ tasks[t].steps = 1
          /\ NodeList(tasks[t].next_nodes) = <<"inc2">>
          /\ tasks[t].status = <<"pending">>
          /\ heap[tasks[t].result_states[1]]["value"] = VInt(1)

\* the node list of the step task t is in or has just ended
ThisStepNodes(t) ==
    tasks[t].trace[StepStartBefore(t, Len(tasks[t].trace) + 1)].nodes

\* one resolution of every entry of every source of the list, in order:
\* the NextNodes that one traversal of each edge schedules
OneTraversalEach(t, sources) ==
    LET entries == EntriesOf(registry[tasks[t].bid], sources)
    IN  Flatten([k \in DOMAIN entries |->
                    resolve_entry(heap[tasks[t].state], entries[k]).nodes])

\* C35: an entry is resolved once per execution of its source node, and its
\* targets are scheduled once, in one step: the node list with which a
\* branch starts holds one traversal of every entry of its start source,
\* and the node list that follows a step without error holds one traversal
\* of every entry of every node the step ran, and nothing else.
EntryResolvedOncePerExecution ==
    \A t \in DOMAIN tasks :
        /\ (tasks[t].pc = "loop" /\ tasks[t].steps = 0)
              => tasks[t].next_nodes
                     = OneTraversalEach(t, <<registry[tasks[t].bid].start>>)
        /\ (tasks[t].pc = "finally" /\ tasks[t].errors = <<>>
                /\ tasks[t].exc = "")
              => tasks[t].next_nodes
                     = OneTraversalEach(t, [k \in DOMAIN ThisStepNodes(t) |->
                                               VNode(ThisStepNodes(t)[k])])

\* the step that ran the source of an instant edge has resolved its next
\* nodes: the target of the instant edge is listed and no NextNode is
\* listed twice
EntryResolvedOncePerExecutionWitness ==
    \E t \in DOMAIN tasks :
        /\ tasks[t].pc = "finally"
        /\ tasks[t].errors = <<>>
        /\ tasks[t].exc = ""
        /\ tasks[t].next_nodes # <<>>
        /\ \E k \in DOMAIN tasks[t].next_nodes :
               tasks[t].next_nodes[k].reached_by.config.v
        /\ \A k, m \in DOMAIN tasks[t].next_nodes :
               tasks[t].next_nodes[k] = tasks[t].next_nodes[m] => k = m

RECURSIVE InstantLevels(_, _, _)
\* the instant closure of the NextNodes of level: the targets of the
\* instant entries that leave them, then the closure of those targets
InstantLevels(t, level, depth) ==
    LET entries == InstantEntries(registry[tasks[t].bid], level)
        targets == Flatten([k \in DOMAIN entries |->
                               resolve_entry(heap[tasks[t].state],
                                             entries[k]).nodes])
    IN  IF entries = <<>> \/ depth = 0 THEN <<>>
        ELSE targets \o InstantLevels(t, targets, depth - 1)

\* the primary targets of the sources, then their instant closure level by
\* level (the graphs have no instant cycle and fewer levels than nodes)
PrimaryThenInstant(t, sources) ==
    OneTraversalEach(t, sources)
        \o InstantLevels(t, OneTraversalEach(t, sources),
                         Cardinality(NodeNames))

\* C36: the result of the next resolver lists the primary targets first,
\* followed by the instant targets level by level in insertion order.
InstantWalkLevelByLevel ==
    \A t \in DOMAIN tasks :
        /\ (tasks[t].pc = "loop" /\ tasks[t].steps = 0)
              => tasks[t].next_nodes
                     = PrimaryThenInstant(t, <<registry[tasks[t].bid].start>>)
        /\ (tasks[t].pc = "finally" /\ tasks[t].errors = <<>>
                /\ tasks[t].exc = "")
              => tasks[t].next_nodes
                     = PrimaryThenInstant(t, [k \in DOMAIN ThisStepNodes(t) |->
                                                 VNode(ThisStepNodes(t)[k])])

\* the error group of task t's step has been routed and no router raised
RoutedThrough(t) ==
    /\ Routed(t)
    /\ tasks[t].pc = "finally"
    /\ tasks[t].exc \in {"", "ExceptionGroup"}

\* the errors task t's error router classified as unhandled
Unhandled(t) == {tasks[t].unhandled[k] : k \in DOMAIN tasks[t].unhandled}

\* C37 as stated: an error is unhandled exactly when it has no eligible
\* matching error entry; when every error has one, whatever its propagate
\* setting, nothing is raised and the branch goes on with the targets.
UnhandledIffNoEligibleEntry ==
    \A t \in DOMAIN tasks :
        RoutedThrough(t) =>
            /\ \A k \in DOMAIN tasks[t].errors :
                   tasks[t].errors[k] \in Unhandled(t)
                       <=> NoLaterEntry(t, tasks[t].errors[k])
            /\ (\A k \in DOMAIN tasks[t].errors :
                    ~NoLaterEntry(t, tasks[t].errors[k]))
                  => /\ tasks[t].exc = ""
                     /\ tasks[t].next_nodes = RecoveryTargets(t)

\* C37: an error is classified as unhandled exactly when no eligible
\* matching error entry with propagate=false was reached for it; the group
\* of the unhandled errors is raised when there is one, the targets of the
\* entries resolved on the way are then dropped, and otherwise the branch
\* goes on with the collected targets.
UnhandledIffNotConsumed ==
    \A t \in DOMAIN tasks :
        RoutedThrough(t) =>
            /\ \A k \in DOMAIN tasks[t].errors :
                   tasks[t].errors[k] \in Unhandled(t)
                       <=> NotConsumed(t, tasks[t].errors[k])
            /\ IF Unhandled(t) = {}
               THEN /\ tasks[t].exc = ""
                    /\ tasks[t].next_nodes = RecoveryTargets(t)
               ELSE /\ tasks[t].exc = "ExceptionGroup"
                    /\ NodeList(tasks[t].next_nodes) = LastStepStart(t)

\* an error whose only eligible matching entry has propagate=true had that
\* entry resolved and is raised as unhandled
UnhandledIffNotConsumedWitness ==
    \E t \in DOMAIN tasks :
        /\ RoutedThrough(t)
        /\ \E k \in DOMAIN tasks[t].routed :
               /\ tasks[t].routed[k].resolved # <<>>
               /\ ~tasks[t].routed[k].consumed
               /\ tasks[t].errors[k] \in Unhandled(t)
               /\ ~NoLaterEntry(t, tasks[t].errors[k])
        /\ tasks[t].exc = "ExceptionGroup"

\* C38: if a node of a fan-out step raises, nothing of that step is merged:
\* from the raise to the join phase of the next step the branch goes to
\* the error router and never to the merge, its state stays the object it
\* was before the fan-out, with the same mapping, and the recovery targets
\* are given copies of that mapping.
NothingMergedOnError ==
    [][\A t \in DOMAIN tasks :
          /\ (/\ tasks'[t].errors # <<>>
              /\ tasks[t].pc \in {"nodes", "route", "finally", "loop", "spawn"})
                => /\ tasks'[t].pc # "merge"
                   /\ tasks'[t].state = tasks[t].state
                   /\ heap'[tasks'[t].state] = heap[tasks[t].state]
          /\ (/\ tasks[t].errors # <<>>
              /\ tasks[t].pc = "fanout"
              /\ tasks'[t].pc = "nodes")
                => \A i \in DOMAIN tasks'[t].result_states :
                       heap'[tasks'[t].result_states[i]] = heap[tasks[t].state]
      ]_vars

\* a step in which one node raised and a sibling completed with a change
\* has been routed to a recovery target, the sibling's change left out of
\* the branch state
NothingMergedOnErrorWitness ==
    \E t \in DOMAIN tasks :
        /\ tasks[t].pc = "finally"
        /\ tasks[t].errors # <<>>
        /\ tasks[t].exc = ""
        /\ tasks[t].next_nodes # <<>>
        /\ \E i \in DOMAIN tasks[t].status :
               /\ tasks[t].status[i] = "done"
               /\ heap[tasks[t].result_states[i]] # heap[tasks[t].state]

\* the run is suspended in its task group, no task is runnable, and every
\* branch task has ended or is suspended in join_branches on a result
\* that is not set: nothing is left that could set it
BranchWaitsForever ==
    /\ run.pc = "tg_wait"
    /\ cur = 0
    /\ ready = <<>>
    /\ \A t \in DOMAIN tasks :
           tasks[t].pc \in {"join_wait", "done", "failed", "cancelled"}
    /\ \E t \in DOMAIN tasks :
           /\ tasks[t].pc = "join_wait"
           /\ ~futures[tasks[t].jfut].done

\* C39: when node bodies, routers and hooks terminate, no branch waits
\* forever in the join phase for a sub-branch result, whatever the start
\* and join nodes of the branch containers are: the run never comes to a
\* halt with a branch suspended on a result nothing can set.
NoBranchWaitsForever == ~BranchWaitsForever

\* C40: running the same Graph object again starts like a run on a freshly
\* constructed graph: when a run starts, no branch is registered in the
\* join registry, so the END join of the run applies the changeset of each
\* branch the run registered, and no other.
NewRunStartsClean ==
    run.pc = "new" => \A k \in JoinKeys : join_registry[k] = <<>>

====
